---- MODULE Spec2Model ----
(***************************************************************************)
(* Storage backend layer of lxd (lxd/storage/backend_lxd.go).              *)
(*                                                                         *)
(* The module holds several specifications over one set of variables, one  *)
(* per part of the backend:                                                *)
(*   SpecVol        volume records, on-disk volumes and symlinks of        *)
(*                  instances; one backend call in flight, executed step   *)
(*                  by step with injected faults                           *)
(*   SpecCustom     the same for custom volumes                            *)
(*   SpecDelete     deletion of instances and custom volumes               *)
(*   SpecRestore    RestoreInstanceSnapshot and RestoreCustomVolume        *)
(*   SpecImage      concurrent EnsureImage calls on one image              *)
(*   SpecPool       Mount, Unmount and Delete of pools                     *)
(*   SpecCopy       cross-pool copy and refresh: sender task, receiver     *)
(*                  task and the call that waits for them; SpecCopyFair    *)
(*                  adds the fairness of the goroutine scheduler           *)
(*   SpecMigration  sender and receiver of a migration between servers     *)
(*   SpecReady      backend calls on pools that are pending or unavailable *)
(*   SpecImageChange EnsureImage after a change of the pool's              *)
(*                  block.filesystem                                       *)
(*   SpecUpdate     Update of the pool's config                            *)
(*   SpecRefresh    RefreshCustomVolume and RefreshInstance                *)
(*   SpecSnap       concurrent snapshot creations                          *)
(*   SpecSource     Update of the pool's source, and Mount                 *)
(*   SpecCustomVol  UpdateCustomVolume on volumes of each content type     *)
(*   SpecScan       ListUnknownVolumes, the recovery scan                  *)
(*   SpecImport     ImportCustomVolume and ImportInstance                  *)
(*   SpecRename     the calls of SpecVol on a build whose range loops have *)
(*                  one variable per iteration                             *)
(*   SpecEnsure     one EnsureImage caller, steps that may fail, every     *)
(*                  starting combination of record and volume              *)
(*   SpecImageLocks concurrent EnsureImage, DeleteImage and                *)
(*                  CreateInstanceFromImage calls and their locks          *)
(*   SpecCopyCall   CreateInstanceFromCopy, RefreshInstance and            *)
(*                  MigrateInstance: the freeze of the source and the      *)
(*                  compensating actions                                   *)
(*   SpecCreate     Create of a pool and its compensating actions          *)
(*   SpecEnsurePools EnsureImage on pools with and without optimized       *)
(*                  images, ready or not                                   *)
(*   SpecSnapshotRecords the records of the snapshots received by          *)
(*                  CreateInstanceFromMigration                            *)
(*   SpecQuota      SetInstanceQuota                                       *)
(*   SpecMigrate    CreateInstanceFromMigration on new and on existing     *)
(*                  instances                                              *)
(*   SpecFromImage  CreateInstanceFromImage and DeleteInstance             *)
(*   SpecCustomSnapshots concurrent CreateCustomVolumeSnapshot calls on    *)
(*                  shared records and storage                             *)
(***************************************************************************)
EXTENDS Integers, Sequences, FiniteSets, TLC

(***************************************************************************)
(* Bounds.                                                                 *)
(***************************************************************************)
\* Number of steps that may fail by an injected fault.
MaxFaults == 1
\* Number of processes that call EnsureImage concurrently.
NumProcs == 3
\* Number of successful EnsureImage calls that are counted.
MaxCalls == 2
\* Number of image unpacks that are counted.
MaxUnpacks == 2
\* Size of the unpacked image.
ImageSize == 1
\* Number of data frames of a transfer.
NumChunks == 2
\* Number of frames a pipe holds before a write waits.
PipeCap == 1

Instances == {"c1", "c2"}
CustomVols == {"v1", "v2"}
\* Snapshot names, in the order the database returns them.
SnapOrder == <<"s1", "s2", "s3">>
SnapNames == {SnapOrder[i] : i \in 1..Len(SnapOrder)}
NoSnap == ""
\* Snapshot names the snapshot calls of the volume specifications are made with.
NewSnapNames == {"s1", "s2"}
\* Values of a record's description and config.
Configs == {"a", "b"}

VolumeTypeContainer == "container"
VolumeTypeCustom == "custom"

VARIABLES
    db,             \* storage volume records of the pool (the cluster database)
    disk,           \* volumes and snapshots the driver holds on the storage device
    symlinks,       \* instance names that have an instance symlink
    snapSymlinks,   \* instance names that have a snapshot symlink
    op,             \* the backend call in flight: its arguments, position and revert chain
    faults,         \* number of steps that have failed by an injected fault
    loopVarShared,  \* whether the build shares a range loop's variable between iterations
    dbConfig,       \* description and config of the records a restore reads and writes
    unavailablePools,   \* names of the pools marked unavailable on this server
    poolDir,        \* pools whose mount path (storage-pools/<name>) exists
    poolMounted,    \* pools the driver has mounted
    imgRec,         \* the image volume's record (block mode, filesystem, volatile.rootfs.size)
    imgDisk,        \* the image volume on the storage device
    poolDefault,    \* the pool's settings for new volumes
    locks,          \* holder of each named operation lock (0: free)
    proc,           \* the image call of each process: position, local variables, revert chain
    unpacks,        \* number of times the image has been unpacked
    ensured,        \* number of EnsureImage calls that returned success
    poolStatus,     \* status of each pool's record: "Pending" or "Created"
    nodeState,      \* state of each pool on this cluster member, "" without a node record
    poolSource,     \* the "source" setting in the pool's record
    lastVolCall,    \* the volume-producing call that returned last, and what it left
    poolSize,       \* the "size" setting in the pool's record
    lastUpdate,     \* the pool Update call that returned last, and what it did
    oldImage,       \* the image record at the last change of the pool's block.filesystem
    rf,             \* the refresh in flight: source and target snapshots, position, log
    snapCall,       \* each snapshot creation: its kind, parent volume, position, result
    snapLocks,      \* the snapshot locks by name: the call that holds it, 0 if free
    cvol,           \* one custom volume: content type, record and the driver's volume
    lastVolUpdate,  \* the UpdateCustomVolume call that returned last
    scan,           \* the recovery scan: the pool's volumes, the records, the result
    lastImport,     \* the import that returned last: its descriptor, the records made
    cp,             \* the instance copy, refresh or migration in flight: the source
                    \* instance's state, the target's records, position, revert chain
    driverPools,    \* pools that exist on their storage device (driver.Create)
    createOp,       \* the pool Create call in flight: position, revert chain, result
    snapRecCall,    \* the last choice of a received snapshot's description and config
    quotaCall,      \* the SetInstanceQuota call that returned last, and the quotas set
    csnap,          \* each concurrent CreateCustomVolumeSnapshot call: names, position
    xfer,           \* the transfer in flight: both tasks, the connection, the waiting call
    lastPoolCall    \* the pool call that returned last: its kind, pool, result and the
                    \* membership of the pool in unavailablePools before the call

volVars == <<db, disk, symlinks, snapSymlinks, op, faults, loopVarShared, dbConfig>>
poolVars == <<unavailablePools, poolDir, poolMounted, lastPoolCall>>
createVars == <<driverPools, createOp>>
callVars == <<snapRecCall, quotaCall, csnap>>

imgVars == <<imgRec, imgDisk, poolDefault, locks, proc, unpacks, ensured>>
readyVars == <<poolStatus, nodeState, lastVolCall>>
updateVars == <<poolSize, poolSource, lastUpdate, oldImage>>

snapVars == <<snapCall, snapLocks>>
cvolVars == <<cvol, lastVolUpdate>>
vars == <<volVars, poolVars, imgVars, xfer, readyVars, updateVars, rf, snapVars, cvolVars, scan, lastImport, cp, createVars, callVars>>

\* What the volume operations below leave alone.
volRest == <<loopVarShared, poolVars, imgVars, xfer, readyVars, updateVars, rf, snapVars, cvolVars, scan, lastImport, cp, createVars, callVars>>
\* What the image operations leave alone.
imgRest == <<volVars, poolVars, xfer, readyVars, updateVars, rf, snapVars, cvolVars, scan, lastImport, cp, createVars, callVars>>
\* What the transfers leave alone.
xferRest == <<volVars, poolVars, imgVars, readyVars, updateVars, rf, snapVars, cvolVars, scan, lastImport, cp, createVars, callVars>>
\* What the refreshes leave alone.
refreshRest == <<volVars, poolVars, imgVars, xfer, readyVars, updateVars, snapVars, cvolVars, scan, lastImport, cp, createVars, callVars>>
\* What the snapshot creations leave alone.
snapRest == <<volVars, poolVars, imgVars, xfer, readyVars, updateVars, rf, cvolVars, scan, lastImport, cp, createVars, callVars>>
\* What the updates of a custom volume leave alone.
cvolRest == <<volVars, poolVars, imgVars, xfer, readyVars, updateVars, rf, snapVars, scan, lastImport, cp, createVars, callVars>>
\* What the recovery scan leaves alone.
scanRest == <<volVars, poolVars, imgVars, xfer, readyVars, updateVars, rf, snapVars, cvolVars, lastImport, cp, createVars, callVars>>
\* What the imports leave alone.
importRest == <<volVars, poolVars, imgVars, xfer, readyVars, updateVars, rf, snapVars, cvolVars, scan, cp, createVars, callVars>>
copyCallRest == <<volVars, poolVars, imgVars, xfer, readyVars, updateVars, rf, snapVars, cvolVars, scan, lastImport, createVars, callVars>>
createRest == <<volVars, imgVars, xfer, readyVars, updateVars, rf, snapVars, cvolVars, scan, lastImport, cp, callVars>>
callRest == <<volVars, poolVars, imgVars, xfer, readyVars, updateVars, rf, snapVars, cvolVars, scan, lastImport, cp, createVars>>
\* What the calls on a pool leave alone.
poolRest == <<volVars, imgVars, xfer, readyVars, updateVars, rf, snapVars, cvolVars, scan, lastImport, cp, createVars, callVars>>

(***************************************************************************)
(* Volume names.  A record or on-disk volume is named by its volume type,  *)
(* the parent name and the snapshot name ("parent/snap"; NoSnap for the    *)
(* parent itself).                                                         *)
(***************************************************************************)
Vol(vt, n, s) == [vt |-> vt, name |-> n, snap |-> s]

AllVols ==
    {Vol(VolumeTypeContainer, n, s) : n \in Instances, s \in SnapNames \cup {NoSnap}}
        \cup {Vol(VolumeTypeCustom, n, s) : n \in CustomVols, s \in SnapNames \cup {NoSnap}}

IsSnapshot(k) == k.snap # NoSnap

SnapsOf(set, vt, n) == {k \in set : k.vt = vt /\ k.name = n /\ k.snap # NoSnap}

\* Snapshot names of a volume, as an ordered list.
SnapList(set, vt, n) ==
    SelectSeq(SnapOrder, LAMBDA s : Vol(vt, n, s) \in set)

\* The state a backend call reads and writes.
St ==
    [db |-> db, disk |-> disk, symlinks |-> symlinks, snapSymlinks |-> snapSymlinks,
     config |-> dbConfig]

SetSt(S) ==
    /\ db' = S.db
    /\ disk' = S.disk
    /\ symlinks' = S.symlinks
    /\ snapSymlinks' = S.snapSymlinks
    /\ dbConfig' = S.config

(***************************************************************************)
(* Symlink helpers.                                                        *)
(***************************************************************************)
ensureInstanceSymlink(S, n) == [S EXCEPT !.symlinks = @ \cup {n}]

removeInstanceSymlink(S, n) == [S EXCEPT !.symlinks = @ \ {n}]

ensureInstanceSnapshotSymlink(S, n) == [S EXCEPT !.snapSymlinks = @ \cup {n}]

\* The driver keeps a volume's snapshot directory while it holds a snapshot of it.
SnapshotDirExists(S, n) == SnapsOf(S.disk, VolumeTypeContainer, n) # {}

removeInstanceSnapshotSymlinkIfUnused(S, n) ==
    IF ~SnapshotDirExists(S, n) THEN [S EXCEPT !.snapSymlinks = @ \ {n}] ELSE S

(***************************************************************************)
(* Database and driver primitives.  Each returns the new state; the Ok     *)
(* operators say whether the call succeeds in state S.                     *)
(***************************************************************************)
VolumeDBCreateOk_Always(S, k) == TRUE

VolumeDBCreateOk(S, k) == k \notin S.db
VolumeDBCreate(S, k) == [S EXCEPT !.db = @ \cup {k}]

VolumeDBDelete(S, k) == [S EXCEPT !.db = @ \ {k}]

RenameStoragePoolVolumeOk(S, from, to) == to \notin S.db
RenameStoragePoolVolume(S, from, to) ==
    IF from \in S.db THEN [S EXCEPT !.db = (@ \ {from}) \cup {to}] ELSE S

DriverCreateVolumeOk(S, k) == k \notin S.disk
DriverCreateVolume(S, k) == [S EXCEPT !.disk = @ \cup {k}]

DriverDeleteVolume(S, k) == [S EXCEPT !.disk = @ \ {k}]

\* RenameVolume renames the volume and its snapshots on the storage device.
DriverRenameVolumeOk(S, vt, old, new) ==
    /\ Vol(vt, old, NoSnap) \in S.disk
    /\ \A k \in S.disk : ~(k.vt = vt /\ k.name = new)
DriverRenameVolume(S, vt, old, new) ==
    [S EXCEPT !.disk = {IF k.vt = vt /\ k.name = old THEN Vol(vt, new, k.snap) ELSE k : k \in @}]

(***************************************************************************)
(* The call in flight.                                                     *)
(***************************************************************************)
NoState == [db |-> {}, disk |-> {}, symlinks |-> {}, snapSymlinks |-> {}, config |-> <<>>]

Idle ==
    [kind |-> "idle", pc |-> "idle", vt |-> "", name |-> "", newName |-> "", snap |-> "",
     todo |-> <<>>, cur |-> "", nsnaps |-> 0, hooks |-> <<>>, err |-> FALSE,
     calls |-> 0, named |-> {}, retryErr |-> FALSE, refresh |-> FALSE, pre |-> NoState]

Call(kind, vt, n, new, s, firstPc) ==
    [Idle EXCEPT !.kind = kind, !.pc = firstPc, !.vt = vt, !.name = n, !.newName = new,
                 !.snap = s, !.pre = St]

\* A step may fail by an injected fault while there are faults left.
FaultChoice == IF faults < MaxFaults THEN BOOLEAN ELSE {FALSE}
InjectFault(fault) == faults' = IF fault THEN faults + 1 ELSE faults

Hook(h, vt, a, b, s) == [h |-> h, vt |-> vt, a |-> a, b |-> b, s |-> s]

\* The step succeeded: move on, registering a compensating action if any.
Goto(o, pc) == [o EXCEPT !.pc = pc]
Push(o, hook) == [o EXCEPT !.hooks = Append(@, hook)]

\* The step failed (its own error, or an injected fault): revert and return.
Fail(o, injected) ==
    [o EXCEPT !.err = TRUE,
              !.pc = IF o.hooks = <<>> THEN "returned" ELSE "revert"]

\* revert.Success() and return nil.
Succeed(o) == [o EXCEPT !.pc = "returned", !.hooks = <<>>]

(***************************************************************************)
(* DeleteInstance, run to completion without faults: the compensating      *)
(* action of the create operations.                                        *)
(***************************************************************************)
DeleteInstanceEffect(S, n) ==
    LET k == Vol(VolumeTypeContainer, n, NoSnap) IN
    IF SnapsOf(S.db, VolumeTypeContainer, n) # {}
    THEN S
    ELSE VolumeDBDelete(
             removeInstanceSnapshotSymlinkIfUnused(
                 removeInstanceSymlink(DriverDeleteVolume(S, k), n), n), k)

(***************************************************************************)
(* revert.Fail(): the compensating actions run last-registered first;      *)
(* their errors are ignored.                                               *)
(***************************************************************************)
\* The value a closure registered in a range loop reads from the loop's variable when
\* it runs: the value of the last iteration when the build shares the variable between
\* iterations, the value of the closure's own iteration otherwise.
RangeVar_Shared(shared, cur, own) == cur
RangeVar(shared, cur, own) == IF shared THEN cur ELSE own

HookEffect(S, hk, o) ==
    CASE hk.h = "VolumeDBDelete" -> VolumeDBDelete(S, Vol(hk.vt, hk.a, hk.s))
      [] hk.h = "DeleteInstance" -> DeleteInstanceEffect(S, hk.a)
      [] hk.h = "RenameSnapshotRecordBack" ->
            \* the closure reads the range variable srcSnapshot when it runs
            LET src == RangeVar(loopVarShared, o.cur, hk.s) IN
            IF RenameStoragePoolVolumeOk(S, Vol(hk.vt, hk.a, hk.s), Vol(hk.vt, hk.b, src))
            THEN RenameStoragePoolVolume(S, Vol(hk.vt, hk.a, hk.s), Vol(hk.vt, hk.b, src))
            ELSE S
      [] hk.h = "RenameRecordBack" ->
            IF RenameStoragePoolVolumeOk(S, Vol(hk.vt, hk.a, NoSnap), Vol(hk.vt, hk.b, NoSnap))
            THEN RenameStoragePoolVolume(S, Vol(hk.vt, hk.a, NoSnap), Vol(hk.vt, hk.b, NoSnap))
            ELSE S
      [] hk.h = "RenameVolumeBack" ->
            IF DriverRenameVolumeOk(S, hk.vt, hk.a, hk.b)
            THEN DriverRenameVolume(S, hk.vt, hk.a, hk.b)
            ELSE S
      [] hk.h = "ensureInstanceSymlink" -> ensureInstanceSymlink(S, hk.a)
      [] hk.h = "removeInstanceSymlink" -> removeInstanceSymlink(S, hk.a)
      [] hk.h = "UpdateStoragePoolVolumeBack" ->
            [S EXCEPT !.config[Vol(hk.vt, hk.a, NoSnap)] = hk.b]
      [] hk.h = "SnapshotSymlinkBack" ->
            ensureInstanceSnapshotSymlink(removeInstanceSnapshotSymlinkIfUnused(S, hk.a), hk.b)
      [] OTHER -> S

RevertStep ==
    /\ op.pc = "revert"
    /\ LET n == Len(op.hooks) IN
        /\ SetSt(HookEffect(St, op.hooks[n], op))
        /\ op' = [op EXCEPT !.hooks = SubSeq(@, 1, n - 1),
                            !.pc = IF n = 1 THEN "returned" ELSE "revert"]
    /\ UNCHANGED <<faults, volRest>>

\* The call has returned to its caller.
Return ==
    /\ op.pc = "returned"
    /\ op' = Idle
    /\ UNCHANGED <<db, disk, symlinks, snapSymlinks, dbConfig, faults, volRest>>

(***************************************************************************)
(* CreateInstance                                                          *)
(***************************************************************************)
CreateInstance_Call(n) ==
    /\ op.kind = "idle"
    /\ Vol(VolumeTypeContainer, n, NoSnap) \notin db
    /\ op' = Call("CreateInstance", VolumeTypeContainer, n, "", NoSnap, "VolumeDBCreate")
    /\ UNCHANGED <<db, disk, symlinks, snapSymlinks, dbConfig, faults, volRest>>

CreateInstance_Step ==
    /\ op.kind = "CreateInstance"
    /\ LET k == Vol(op.vt, op.name, NoSnap) IN
       \E fault \in FaultChoice :
        /\ InjectFault(fault)
        /\ CASE op.pc = "VolumeDBCreate" ->
                IF fault \/ ~VolumeDBCreateOk(St, k)
                THEN op' = Fail(op, fault) /\ SetSt(St)
                ELSE /\ SetSt(VolumeDBCreate(St, k))
                     /\ op' = Goto(Push(op, Hook("VolumeDBDelete", op.vt, op.name, "", NoSnap)),
                                   "CreateVolume")
          [] op.pc = "CreateVolume" ->
                IF fault \/ ~DriverCreateVolumeOk(St, k)
                THEN op' = Fail(op, fault) /\ SetSt(St)
                ELSE /\ SetSt(DriverCreateVolume(St, k))
                     /\ op' = Goto(Push(op, Hook("DeleteInstance", op.vt, op.name, "", NoSnap)),
                                   "ensureInstanceSymlink")
          [] op.pc = "ensureInstanceSymlink" ->
                IF fault
                THEN op' = Fail(op, fault) /\ SetSt(St)
                ELSE /\ SetSt(ensureInstanceSymlink(St, op.name))
                     /\ op' = Goto(op, "DeferTemplateApply")
          [] op.pc = "DeferTemplateApply" ->
                IF fault
                THEN op' = Fail(op, fault) /\ SetSt(St)
                ELSE op' = Succeed(op) /\ SetSt(St)
          [] OTHER -> FALSE
    /\ UNCHANGED volRest

(***************************************************************************)
(* CreateInstanceFromMigration, the receiving side of a migration or of a  *)
(* refresh between pools; not a move within a cluster on remote storage.   *)
(***************************************************************************)
\* args.Snapshots: the snapshots to receive.
ReceivedSnapshots == {<<>>, <<"s1">>, <<"s1", "s2">>}

CreateInstanceFromMigration_Call(n, refresh, snapshots) ==
    /\ op.kind = "idle"
    /\ op' = [Call("CreateInstanceFromMigration", VolumeTypeContainer, n, "", NoSnap,
                   "VolumeDBGet")
                EXCEPT !.refresh = refresh, !.todo = snapshots,
                       !.named = {snapshots[i] : i \in 1..Len(snapshots)}]
    /\ UNCHANGED <<db, disk, symlinks, snapSymlinks, dbConfig, faults, volRest>>

CreateInstanceFromMigration_Step ==
    /\ op.kind = "CreateInstanceFromMigration"
    /\ LET k == Vol(op.vt, op.name, NoSnap)
           dbVol == k \in db
           volExists == k \in disk IN
       \E fault \in FaultChoice :
        /\ InjectFault(fault)
        /\ CASE op.pc = "VolumeDBGet" ->
                /\ SetSt(St)
                /\ op' = IF fault THEN Fail(op, fault) ELSE Goto(op, "HasVolume")
          [] op.pc = "HasVolume" ->
                /\ SetSt(St)
                /\ op' = IF \/ fault
                            \/ dbVol # volExists
                            \/ op.refresh /\ ~volExists
                            \/ ~op.refresh /\ volExists
                         THEN Fail(op, fault)
                         ELSE IF op.refresh THEN Goto(op, "snapshots.VolumeDBCreate")
                         ELSE Goto(op, "VolumeDBCreate")
          [] op.pc = "VolumeDBCreate" ->
                IF fault \/ ~VolumeDBCreateOk(St, k)
                THEN op' = Fail(op, fault) /\ SetSt(St)
                ELSE /\ SetSt(VolumeDBCreate(St, k))
                     /\ op' = Goto(Push(op, Hook("VolumeDBDelete", op.vt, op.name, "", NoSnap)),
                                   "snapshots.VolumeDBCreate")
          [] op.pc = "snapshots.VolumeDBCreate" ->
                IF op.todo = <<>>
                THEN ~fault /\ SetSt(St) /\ op' = Goto(op, "CreateVolumeFromMigration")
                ELSE LET snap == Vol(op.vt, op.name, Head(op.todo)) IN
                     IF fault \/ ~VolumeDBCreateOk(St, snap)
                     THEN op' = Fail(op, fault) /\ SetSt(St)
                     ELSE /\ SetSt(VolumeDBCreate(St, snap))
                          /\ op' = [Push(op, Hook("VolumeDBDelete", op.vt, op.name, "",
                                                  Head(op.todo)))
                                      EXCEPT !.todo = Tail(@)]
          [] op.pc = "CreateVolumeFromMigration" ->
                \* the driver receives the volume and the snapshots
                IF fault
                THEN op' = Fail(op, fault) /\ SetSt(St)
                ELSE /\ SetSt([St EXCEPT !.disk = @ \cup {k}
                                            \cup {Vol(op.vt, op.name, s) : s \in op.named}])
                     /\ op' = Goto(Push([op EXCEPT !.calls = 1],
                                        Hook("DeleteInstance", op.vt, op.name, "", NoSnap)),
                                   "ensureInstanceSymlink")
          [] op.pc = "ensureInstanceSymlink" ->
                IF fault
                THEN op' = Fail(op, fault) /\ SetSt(St)
                ELSE /\ SetSt(ensureInstanceSymlink(St, op.name))
                     /\ op' = IF op.named # {}
                              THEN Goto(op, "ensureInstanceSnapshotSymlink")
                              ELSE Succeed(op)
          [] op.pc = "ensureInstanceSnapshotSymlink" ->
                IF fault
                THEN op' = Fail(op, fault) /\ SetSt(St)
                ELSE SetSt(ensureInstanceSnapshotSymlink(St, op.name)) /\ op' = Succeed(op)
          [] OTHER -> FALSE
    /\ UNCHANGED volRest

(***************************************************************************)
(* CreateInstanceFromImage: the instance's record and volume.  The volume  *)
(* is unpacked from the image or copied from the image's volume; the only  *)
(* compensating action is the deletion of the record.                      *)
(***************************************************************************)
CreateInstanceFromImageVolume_Call(n) ==
    /\ op.kind = "idle"
    /\ op' = Call("CreateInstanceFromImage", VolumeTypeContainer, n, "", NoSnap, "VolumeDBCreate")
    /\ UNCHANGED <<db, disk, symlinks, snapSymlinks, dbConfig, faults, volRest>>

CreateInstanceFromImageVolume_Step ==
    /\ op.kind = "CreateInstanceFromImage"
    /\ LET k == Vol(op.vt, op.name, NoSnap) IN
       \E fault \in FaultChoice :
        /\ InjectFault(fault)
        /\ CASE op.pc = "VolumeDBCreate" ->
                IF fault \/ ~VolumeDBCreateOk(St, k)
                THEN op' = Fail(op, fault) /\ SetSt(St)
                ELSE /\ SetSt(VolumeDBCreate(St, k))
                     /\ op' = Goto(Push(op, Hook("VolumeDBDelete", op.vt, op.name, "", NoSnap)),
                                   "CreateVolume")
          [] op.pc = "CreateVolume" ->
                \* driver.CreateVolume with the image's filler, or EnsureImage and
                \* driver.CreateVolumeFromCopy; no compensating action is registered
                IF fault \/ ~DriverCreateVolumeOk(St, k)
                THEN op' = Fail(op, fault) /\ SetSt(St)
                ELSE /\ SetSt(DriverCreateVolume(St, k))
                     /\ op' = Goto([op EXCEPT !.calls = 1], "ensureInstanceSymlink")
          [] op.pc = "ensureInstanceSymlink" ->
                IF fault
                THEN op' = Fail(op, fault) /\ SetSt(St)
                ELSE /\ SetSt(ensureInstanceSymlink(St, op.name))
                     /\ op' = Goto(op, "DeferTemplateApply")
          [] op.pc = "DeferTemplateApply" ->
                IF fault
                THEN op' = Fail(op, fault) /\ SetSt(St)
                ELSE op' = Succeed(op) /\ SetSt(St)
          [] OTHER -> FALSE
    /\ UNCHANGED volRest

(***************************************************************************)
(* DeleteInstance                                                          *)
(***************************************************************************)
DeleteInstance_Call(n) ==
    /\ op.kind = "idle"
    /\ Vol(VolumeTypeContainer, n, NoSnap) \in db
    /\ op' = Call("DeleteInstance", VolumeTypeContainer, n, "", NoSnap, "VolumeDBSnapshotsGet")
    /\ UNCHANGED <<db, disk, symlinks, snapSymlinks, dbConfig, faults, volRest>>

DeleteInstanceRefused_NoCheck(S, n) == FALSE

\* The check of DeleteInstance that all snapshots are already removed.
DeleteInstanceRefused(S, n) == SnapsOf(S.db, VolumeTypeContainer, n) # {}

DeleteInstance_Step ==
    /\ op.kind = "DeleteInstance"
    /\ LET k == Vol(op.vt, op.name, NoSnap) IN
       \E fault \in FaultChoice :
        /\ InjectFault(fault)
        /\ CASE op.pc = "VolumeDBSnapshotsGet" ->
                /\ SetSt(St)
                /\ IF fault \/ DeleteInstanceRefused(St, op.name)
                   THEN op' = Fail(op, fault)
                   ELSE op' = Goto(op, "DeleteVolume")
          [] op.pc = "DeleteVolume" ->
                IF fault
                THEN op' = Fail(op, fault) /\ SetSt(St)
                ELSE SetSt(DriverDeleteVolume(St, k)) /\ op' = Goto(op, "removeInstanceSymlink")
          [] op.pc = "removeInstanceSymlink" ->
                IF fault
                THEN op' = Fail(op, fault) /\ SetSt(St)
                ELSE /\ SetSt(removeInstanceSymlink(St, op.name))
                     /\ op' = Goto(op, "removeInstanceSnapshotSymlinkIfUnused")
          [] op.pc = "removeInstanceSnapshotSymlinkIfUnused" ->
                IF fault
                THEN op' = Fail(op, fault) /\ SetSt(St)
                ELSE /\ SetSt(removeInstanceSnapshotSymlinkIfUnused(St, op.name))
                     /\ op' = Goto(op, "VolumeDBDelete")
          [] op.pc = "VolumeDBDelete" ->
                IF fault
                THEN op' = Fail(op, fault) /\ SetSt(St)
                ELSE SetSt(VolumeDBDelete(St, k)) /\ op' = Succeed(op)
          [] OTHER -> FALSE
    /\ UNCHANGED volRest

(***************************************************************************)
(* RenameInstance                                                          *)
(***************************************************************************)
RenameInstance_Call(n, new) ==
    /\ op.kind = "idle"
    /\ n # new
    /\ Vol(VolumeTypeContainer, n, NoSnap) \in db
    /\ Vol(VolumeTypeContainer, new, NoSnap) \notin db    \* the caller renames to a free name
    /\ op' = [Call("RenameInstance", VolumeTypeContainer, n, new, NoSnap, "GetInstanceSnapshotsNames")
                EXCEPT !.todo = SnapList(db, VolumeTypeContainer, n)]
    /\ UNCHANGED <<db, disk, symlinks, snapSymlinks, dbConfig, faults, volRest>>

\* The loop over the snapshot records of a rename, shared by RenameInstance and
\* RenameCustomVolume: one RenameStoragePoolVolume call per snapshot, each with its revert.
RenameSnapshotRecord(o, S, fault, nextPc) ==
    LET s == Head(o.todo)
        from == Vol(o.vt, o.name, s)
        to == Vol(o.vt, o.newName, s)
        o1 == [o EXCEPT !.cur = s] IN
    IF fault \/ ~RenameStoragePoolVolumeOk(S, from, to)
    THEN [o |-> Fail(o1, fault), S |-> S]
    ELSE [o |-> [Push(o1, Hook("RenameSnapshotRecordBack", o.vt, o.newName, o.name, s))
                    EXCEPT !.todo = Tail(@),
                           !.pc = IF Tail(o.todo) = <<>> THEN nextPc ELSE o.pc],
          S |-> RenameStoragePoolVolume(S, from, to)]

RenameInstance_Step ==
    /\ op.kind = "RenameInstance"
    /\ \E fault \in FaultChoice :
        /\ InjectFault(fault)
        /\ CASE op.pc = "GetInstanceSnapshotsNames" ->
                /\ SetSt(St)
                /\ IF fault
                   THEN op' = Fail(op, fault)
                   ELSE LET o1 == [op EXCEPT !.nsnaps = Len(op.todo)] IN
                        IF Len(op.todo) > 0
                        THEN op' = Goto(Push(o1, Hook("SnapshotSymlinkBack", op.vt, op.newName,
                                                      op.name, NoSnap)),
                                        "RenameSnapshotRecords")
                        ELSE op' = Goto(o1, "RenameStoragePoolVolume")
          [] op.pc = "RenameSnapshotRecords" ->
                LET r == RenameSnapshotRecord(op, St, fault, "RenameStoragePoolVolume") IN
                op' = r.o /\ SetSt(r.S)
          [] op.pc = "RenameStoragePoolVolume" ->
                LET from == Vol(op.vt, op.name, NoSnap)
                    to == Vol(op.vt, op.newName, NoSnap) IN
                IF fault \/ ~RenameStoragePoolVolumeOk(St, from, to)
                THEN op' = Fail(op, fault) /\ SetSt(St)
                ELSE /\ SetSt(RenameStoragePoolVolume(St, from, to))
                     /\ op' = Goto(Push(op, Hook("RenameRecordBack", op.vt, op.newName, op.name,
                                                 NoSnap)), "RenameVolume")
          [] op.pc = "RenameVolume" ->
                IF fault \/ ~DriverRenameVolumeOk(St, op.vt, op.name, op.newName)
                THEN op' = Fail(op, fault) /\ SetSt(St)
                ELSE /\ SetSt(DriverRenameVolume(St, op.vt, op.name, op.newName))
                     /\ op' = Goto(Push(op, Hook("RenameVolumeBack", op.vt, op.newName, op.name,
                                                 NoSnap)), "removeInstanceSymlink")
          [] op.pc = "removeInstanceSymlink" ->
                IF fault
                THEN op' = Fail(op, fault) /\ SetSt(St)
                ELSE /\ SetSt(removeInstanceSymlink(St, op.name))
                     /\ op' = Goto(Push(op, Hook("ensureInstanceSymlink", op.vt, op.name, "",
                                                 NoSnap)), "ensureInstanceSymlink")
          [] op.pc = "ensureInstanceSymlink" ->
                IF fault
                THEN op' = Fail(op, fault) /\ SetSt(St)
                ELSE /\ SetSt(ensureInstanceSymlink(St, op.newName))
                     /\ op' = Goto(Push(op, Hook("removeInstanceSymlink", op.vt, op.newName, "",
                                                 NoSnap)),
                                   "removeInstanceSnapshotSymlinkIfUnused")
          [] op.pc = "removeInstanceSnapshotSymlinkIfUnused" ->
                IF fault
                THEN op' = Fail(op, fault) /\ SetSt(St)
                ELSE /\ SetSt(removeInstanceSnapshotSymlinkIfUnused(St, op.name))
                     /\ op' = IF op.nsnaps > 0
                              THEN Goto(op, "ensureInstanceSnapshotSymlink")
                              ELSE Succeed(op)
          [] op.pc = "ensureInstanceSnapshotSymlink" ->
                IF fault
                THEN op' = Fail(op, fault) /\ SetSt(St)
                ELSE SetSt(ensureInstanceSnapshotSymlink(St, op.newName)) /\ op' = Succeed(op)
          [] OTHER -> FALSE
    /\ UNCHANGED volRest

(***************************************************************************)
(* CreateInstanceSnapshot                                                  *)
(***************************************************************************)
CreateInstanceSnapshot_Call(n, s) ==
    /\ op.kind = "idle"
    /\ Vol(VolumeTypeContainer, n, s) \notin db
    /\ op' = Call("CreateInstanceSnapshot", VolumeTypeContainer, n, "", s, "VolumeDBGet")
    /\ UNCHANGED <<db, disk, symlinks, snapSymlinks, dbConfig, faults, volRest>>

CreateInstanceSnapshot_Step ==
    /\ op.kind = "CreateInstanceSnapshot"
    /\ LET k == Vol(op.vt, op.name, op.snap) IN
       \E fault \in FaultChoice :
        /\ InjectFault(fault)
        /\ CASE op.pc = "VolumeDBGet" ->
                /\ SetSt(St)
                /\ IF fault \/ Vol(op.vt, op.name, NoSnap) \notin db
                   THEN op' = Fail(op, fault)
                   ELSE op' = Goto(op, "VolumeDBCreate")
          [] op.pc = "VolumeDBCreate" ->
                IF fault \/ ~VolumeDBCreateOk(St, k)
                THEN op' = Fail(op, fault) /\ SetSt(St)
                ELSE /\ SetSt(VolumeDBCreate(St, k))
                     /\ op' = Goto(Push(op, Hook("VolumeDBDelete", op.vt, op.name, "", op.snap)),
                                   "CreateVolumeSnapshot")
          [] op.pc = "CreateVolumeSnapshot" ->
                IF fault \/ ~DriverCreateVolumeOk(St, k)
                THEN op' = Fail(op, fault) /\ SetSt(St)
                ELSE /\ SetSt(DriverCreateVolume(St, k))
                     /\ op' = Goto(op, "ensureInstanceSnapshotSymlink")
          [] op.pc = "ensureInstanceSnapshotSymlink" ->
                IF fault
                THEN op' = Fail(op, fault) /\ SetSt(St)
                ELSE SetSt(ensureInstanceSnapshotSymlink(St, op.name)) /\ op' = Succeed(op)
          [] OTHER -> FALSE
    /\ UNCHANGED volRest

(***************************************************************************)
(* DeleteInstanceSnapshot                                                  *)
(***************************************************************************)
DeleteInstanceSnapshot_Call(n, s) ==
    /\ op.kind = "idle"
    /\ Vol(VolumeTypeContainer, n, s) \in db
    /\ op' = Call("DeleteInstanceSnapshot", VolumeTypeContainer, n, "", s, "DeleteVolumeSnapshot")
    /\ UNCHANGED <<db, disk, symlinks, snapSymlinks, dbConfig, faults, volRest>>

DeleteInstanceSnapshot_Step ==
    /\ op.kind = "DeleteInstanceSnapshot"
    /\ LET k == Vol(op.vt, op.name, op.snap) IN
       \E fault \in FaultChoice :
        /\ InjectFault(fault)
        /\ CASE op.pc = "DeleteVolumeSnapshot" ->
                IF fault
                THEN op' = Fail(op, fault) /\ SetSt(St)
                ELSE /\ SetSt(DriverDeleteVolume(St, k))
                     /\ op' = Goto(op, "removeInstanceSnapshotSymlinkIfUnused")
          [] op.pc = "removeInstanceSnapshotSymlinkIfUnused" ->
                IF fault
                THEN op' = Fail(op, fault) /\ SetSt(St)
                ELSE /\ SetSt(removeInstanceSnapshotSymlinkIfUnused(St, op.name))
                     /\ op' = Goto(op, "VolumeDBDelete")
          [] op.pc = "VolumeDBDelete" ->
                IF fault
                THEN op' = Fail(op, fault) /\ SetSt(St)
                ELSE SetSt(VolumeDBDelete(St, k)) /\ op' = Succeed(op)
          [] OTHER -> FALSE
    /\ UNCHANGED volRest

(***************************************************************************)
(* CreateCustomVolume                                                      *)
(***************************************************************************)
CreateCustomVolume_Call(n) ==
    /\ op.kind = "idle"
    /\ op' = Call("CreateCustomVolume", VolumeTypeCustom, n, "", NoSnap, "VolumeDBCreate")
    /\ UNCHANGED <<db, disk, symlinks, snapSymlinks, dbConfig, faults, volRest>>

CreateCustomVolume_Step ==
    /\ op.kind = "CreateCustomVolume"
    /\ LET k == Vol(op.vt, op.name, NoSnap) IN
       \E fault \in FaultChoice :
        /\ InjectFault(fault)
        /\ CASE op.pc = "VolumeDBCreate" ->
                IF fault \/ ~VolumeDBCreateOk(St, k)
                THEN op' = Fail(op, fault) /\ SetSt(St)
                ELSE /\ SetSt(VolumeDBCreate(St, k))
                     /\ op' = Goto(Push(op, Hook("VolumeDBDelete", op.vt, op.name, "", NoSnap)),
                                   "CreateVolume")
          [] op.pc = "CreateVolume" ->
                IF fault \/ ~DriverCreateVolumeOk(St, k)
                THEN op' = Fail(op, fault) /\ SetSt(St)
                ELSE SetSt(DriverCreateVolume(St, k)) /\ op' = Succeed(op)
          [] OTHER -> FALSE
    /\ UNCHANGED volRest

(***************************************************************************)
(* CreateCustomVolumeSnapshot                                              *)
(***************************************************************************)
CreateCustomVolumeSnapshot_Call(n, s) ==
    /\ op.kind = "idle"
    /\ op' = Call("CreateCustomVolumeSnapshot", VolumeTypeCustom, n, "", s, "VolumeDBGet")
    /\ UNCHANGED <<db, disk, symlinks, snapSymlinks, dbConfig, faults, volRest>>

CreateCustomVolumeSnapshot_Step ==
    /\ op.kind = "CreateCustomVolumeSnapshot"
    /\ LET k == Vol(op.vt, op.name, op.snap) IN
       \E fault \in FaultChoice :
        /\ InjectFault(fault)
        /\ CASE op.pc = "VolumeDBGet" ->
                \* the snapshot must not exist yet and the parent must exist
                /\ SetSt(St)
                /\ IF fault \/ k \in db \/ Vol(op.vt, op.name, NoSnap) \notin db
                   THEN op' = Fail(op, fault)
                   ELSE op' = Goto(op, "VolumeDBCreate")
          [] op.pc = "VolumeDBCreate" ->
                IF fault \/ ~VolumeDBCreateOk(St, k)
                THEN op' = Fail(op, fault) /\ SetSt(St)
                ELSE /\ SetSt(VolumeDBCreate(St, k))
                     /\ op' = Goto(Push(op, Hook("VolumeDBDelete", op.vt, op.name, "", op.snap)),
                                   "CreateVolumeSnapshot")
          [] op.pc = "CreateVolumeSnapshot" ->
                IF fault \/ ~DriverCreateVolumeOk(St, k)
                THEN op' = Fail(op, fault) /\ SetSt(St)
                ELSE SetSt(DriverCreateVolume(St, k)) /\ op' = Succeed(op)
          [] OTHER -> FALSE
    /\ UNCHANGED volRest

(***************************************************************************)
(* DeleteCustomVolumeSnapshot.  The steps are also those of the loop of    *)
(* DeleteCustomVolume, which calls it for every snapshot of the volume.    *)
(***************************************************************************)
DeleteCustomVolumeSnapshot_Call(n, s) ==
    /\ op.kind = "idle"
    /\ op' = [Call("DeleteCustomVolumeSnapshot", VolumeTypeCustom, n, "", s, "snap.VolumeDBGet")
                EXCEPT !.cur = s]
    /\ UNCHANGED <<db, disk, symlinks, snapSymlinks, dbConfig, faults, volRest>>

\* One step of DeleteCustomVolumeSnapshot(name/cur); donePc is where its caller goes on.
DeleteCustomVolumeSnapshotStep(o, S, fault, donePo) ==
    LET k == Vol(o.vt, o.name, o.cur) IN
    CASE o.pc = "snap.VolumeDBGet" ->
            IF fault \/ k \notin S.db
            THEN [o |-> Fail(o, fault), S |-> S]
            ELSE [o |-> Goto(o, "snap.DeleteVolumeSnapshot"), S |-> S]
      [] o.pc = "snap.DeleteVolumeSnapshot" ->
            IF fault
            THEN [o |-> Fail(o, fault), S |-> S]
            ELSE [o |-> Goto(o, "snap.VolumeDBDelete"), S |-> DriverDeleteVolume(S, k)]
      [] o.pc = "snap.VolumeDBDelete" ->
            IF fault
            THEN [o |-> Fail(o, fault), S |-> S]
            ELSE [o |-> donePo, S |-> VolumeDBDelete(S, k)]

SnapshotPcs == {"snap.VolumeDBGet", "snap.DeleteVolumeSnapshot", "snap.VolumeDBDelete"}

DeleteCustomVolumeSnapshot_Step ==
    /\ op.kind = "DeleteCustomVolumeSnapshot"
    /\ op.pc \in SnapshotPcs
    /\ \E fault \in FaultChoice :
        /\ InjectFault(fault)
        /\ LET r == DeleteCustomVolumeSnapshotStep(op, St, fault, Succeed(op)) IN
           op' = r.o /\ SetSt(r.S)
    /\ UNCHANGED volRest

(***************************************************************************)
(* DeleteCustomVolume                                                      *)
(***************************************************************************)
DeleteCustomVolume_Call(n) ==
    /\ op.kind = "idle"
    /\ op' = Call("DeleteCustomVolume", VolumeTypeCustom, n, "", NoSnap, "VolumeDBSnapshotsGet")
    /\ UNCHANGED <<db, disk, symlinks, snapSymlinks, dbConfig, faults, volRest>>

\* Where DeleteCustomVolume goes on with the snapshots left to remove.
DeleteCustomVolumeLoop(o, todo) ==
    IF todo = <<>>
    THEN [o EXCEPT !.todo = <<>>, !.pc = "VolumeDBGet"]
    ELSE [o EXCEPT !.todo = Tail(todo), !.cur = Head(todo), !.pc = "snap.VolumeDBGet"]

DeleteCustomVolume_Step ==
    /\ op.kind = "DeleteCustomVolume"
    /\ LET k == Vol(op.vt, op.name, NoSnap) IN
       \E fault \in FaultChoice :
        /\ InjectFault(fault)
        /\ CASE op.pc = "VolumeDBSnapshotsGet" ->
                /\ SetSt(St)
                /\ IF fault
                   THEN op' = Fail(op, fault)
                   ELSE op' = DeleteCustomVolumeLoop(op, SnapList(db, op.vt, op.name))
          [] op.pc \in SnapshotPcs ->
                LET r == DeleteCustomVolumeSnapshotStep(op, St, fault,
                                                        DeleteCustomVolumeLoop(op, op.todo)) IN
                op' = r.o /\ SetSt(r.S)
          [] op.pc = "VolumeDBGet" ->
                /\ SetSt(St)
                /\ IF fault \/ k \notin db
                   THEN op' = Fail(op, fault)
                   ELSE op' = Goto(op, "DeleteVolume")
          [] op.pc = "DeleteVolume" ->
                IF fault
                THEN op' = Fail(op, fault) /\ SetSt(St)
                ELSE SetSt(DriverDeleteVolume(St, k)) /\ op' = Goto(op, "VolumeDBDelete")
          [] op.pc = "VolumeDBDelete" ->
                IF fault
                THEN op' = Fail(op, fault) /\ SetSt(St)
                ELSE SetSt(VolumeDBDelete(St, k)) /\ op' = Succeed(op)
          [] OTHER -> FALSE
    /\ UNCHANGED volRest

(***************************************************************************)
(* RenameCustomVolume                                                      *)
(***************************************************************************)
RenameCustomVolume_Call(n, new) ==
    /\ op.kind = "idle"
    /\ n # new
    /\ Vol(VolumeTypeCustom, new, NoSnap) \notin db       \* the caller renames to a free name
    /\ op' = Call("RenameCustomVolume", VolumeTypeCustom, n, new, NoSnap, "VolumeDBGet")
    /\ UNCHANGED <<db, disk, symlinks, snapSymlinks, dbConfig, faults, volRest>>

RenameCustomVolume_Step ==
    /\ op.kind = "RenameCustomVolume"
    /\ \E fault \in FaultChoice :
        /\ InjectFault(fault)
        /\ CASE op.pc = "VolumeDBGet" ->
                /\ SetSt(St)
                /\ IF fault \/ Vol(op.vt, op.name, NoSnap) \notin db
                   THEN op' = Fail(op, fault)
                   ELSE op' = Goto(op, "VolumeDBSnapshotsGet")
          [] op.pc = "VolumeDBSnapshotsGet" ->
                /\ SetSt(St)
                /\ IF fault
                   THEN op' = Fail(op, fault)
                   ELSE LET l == SnapList(db, op.vt, op.name) IN
                        op' = [op EXCEPT !.todo = l, !.nsnaps = Len(l),
                                         !.pc = IF l = <<>> THEN "RenameStoragePoolVolume"
                                                ELSE "RenameSnapshotRecords"]
          [] op.pc = "RenameSnapshotRecords" ->
                LET r == RenameSnapshotRecord(op, St, fault, "RenameStoragePoolVolume") IN
                op' = r.o /\ SetSt(r.S)
          [] op.pc = "RenameStoragePoolVolume" ->
                LET from == Vol(op.vt, op.name, NoSnap)
                    to == Vol(op.vt, op.newName, NoSnap) IN
                IF fault \/ ~RenameStoragePoolVolumeOk(St, from, to)
                THEN op' = Fail(op, fault) /\ SetSt(St)
                ELSE /\ SetSt(RenameStoragePoolVolume(St, from, to))
                     /\ op' = Goto(Push(op, Hook("RenameRecordBack", op.vt, op.newName, op.name,
                                                 NoSnap)), "RenameVolume")
          [] op.pc = "RenameVolume" ->
                IF fault \/ ~DriverRenameVolumeOk(St, op.vt, op.name, op.newName)
                THEN op' = Fail(op, fault) /\ SetSt(St)
                ELSE /\ SetSt(DriverRenameVolume(St, op.vt, op.name, op.newName))
                     /\ op' = Succeed(op)
          [] OTHER -> FALSE
    /\ UNCHANGED volRest

(***************************************************************************)
(* RestoreInstanceSnapshot and RestoreCustomVolume.  The driver's          *)
(* RestoreVolume returns nil, an error, or ErrDeleteSnapshots naming       *)
(* snapshots of the volume that have to be deleted first.                  *)
(***************************************************************************)
UpdateStoragePoolVolume(S, k, config) == [S EXCEPT !.config[k] = config]

\* The results of driver.RestoreVolume other than a plain error: the set of snapshot names
\* an ErrDeleteSnapshots carries (on-disk snapshots of the volume other than the source);
\* the empty set stands for nil.
RestoreVolumeResults(S, o) ==
    SUBSET {k.snap : k \in SnapsOf(S.disk, o.vt, o.name) \ {Vol(o.vt, o.name, o.snap)}}

StringInSlice_Any(snapName, snapshots) == TRUE

\* shared.StringInSlice(snapName, snapErr.Snapshots)
StringInSlice(snapName, snapshots) == snapName \in snapshots

\* snap.Delete(true) of an instance snapshot: its volume, its symlink if unused, its record.
DeleteInstanceSnapshotEffect(S, n, s) ==
    LET k == Vol(VolumeTypeContainer, n, s) IN
    VolumeDBDelete(removeInstanceSnapshotSymlinkIfUnused(DriverDeleteVolume(S, k), n), k)

\* The first RestoreVolume call of both restore operations.
RestoreVolumeFirst(o, fault, res, todo, loopPc) ==
    LET c == [o EXCEPT !.calls = @ + 1] IN
    CASE fault -> Fail(c, fault)
      [] res = {} -> c
      [] OTHER -> [c EXCEPT !.named = res, !.todo = todo, !.pc = loopPc]

\* return without revert.Success(): the deferred revert.Fail() runs the hooks.
ReturnNoSuccess(o) == [o EXCEPT !.pc = IF o.hooks = <<>> THEN "returned" ELSE "revert"]

RestoreInstanceSnapshot_Call(n, s) ==
    /\ op.kind = "idle"
    /\ {Vol(VolumeTypeContainer, n, NoSnap), Vol(VolumeTypeContainer, n, s)} \subseteq db \cap disk
    /\ op' = Call("RestoreInstanceSnapshot", VolumeTypeContainer, n, "", s, "VolumeDBGet")
    /\ UNCHANGED <<db, disk, symlinks, snapSymlinks, dbConfig, faults, volRest>>

RestoreInstanceSnapshot_Step ==
    /\ op.kind = "RestoreInstanceSnapshot"
    /\ LET k == Vol(op.vt, op.name, NoSnap)
           src == Vol(op.vt, op.name, op.snap) IN
       \E fault \in FaultChoice :
        /\ InjectFault(fault)
        /\ CASE op.pc = "VolumeDBGet" ->
                /\ SetSt(St)
                /\ IF fault \/ k \notin db \/ src \notin db
                   THEN op' = Fail(op, fault)
                   ELSE op' = Goto(op, "UpdateStoragePoolVolume")
          [] op.pc = "UpdateStoragePoolVolume" ->
                IF dbConfig[k] = dbConfig[src]
                THEN ~fault /\ SetSt(St) /\ op' = Goto(op, "RestoreVolume")
                ELSE IF fault
                THEN op' = Fail(op, fault) /\ SetSt(St)
                ELSE /\ SetSt(UpdateStoragePoolVolume(St, k, dbConfig[src]))
                     /\ op' = Goto(Push(op, Hook("UpdateStoragePoolVolumeBack", op.vt, op.name,
                                                 dbConfig[k], NoSnap)), "RestoreVolume")
          [] op.pc = "RestoreVolume" ->
                /\ SetSt(St)
                /\ \E res \in RestoreVolumeResults(St, op) :
                    LET r == RestoreVolumeFirst(op, fault, res,
                                                SnapList(db, op.vt, op.name), "snap.Delete") IN
                    op' = IF ~fault /\ res = {} THEN Succeed(r) ELSE r
          [] op.pc = "snap.Delete" ->
                IF op.todo = <<>>
                THEN ~fault /\ SetSt(St) /\ op' = Goto(op, "RestoreVolumeRetry")
                ELSE IF ~StringInSlice(Head(op.todo), op.named)
                THEN ~fault /\ SetSt(St) /\ op' = [op EXCEPT !.todo = Tail(@)]
                ELSE IF fault
                THEN op' = Fail(op, fault) /\ SetSt(St)
                ELSE /\ SetSt(DeleteInstanceSnapshotEffect(St, op.name, Head(op.todo)))
                     /\ op' = [op EXCEPT !.todo = Tail(@)]
          [] op.pc = "RestoreVolumeRetry" ->
                /\ SetSt(St)
                /\ \E res \in RestoreVolumeResults(St, op) :
                    LET c == [op EXCEPT !.calls = @ + 1] IN
                    op' = IF fault \/ res # {}
                          THEN Fail([c EXCEPT !.retryErr = TRUE], fault)
                          ELSE ReturnNoSuccess(c)
          [] OTHER -> FALSE
    /\ UNCHANGED volRest

RestoreCustomVolume_Call(n, s) ==
    /\ op.kind = "idle"
    /\ {Vol(VolumeTypeCustom, n, NoSnap), Vol(VolumeTypeCustom, n, s)} \subseteq db \cap disk
    /\ op' = Call("RestoreCustomVolume", VolumeTypeCustom, n, "", s, "VolumeDBGet")
    /\ UNCHANGED <<db, disk, symlinks, snapSymlinks, dbConfig, faults, volRest>>

\* Where RestoreCustomVolume goes on with the named snapshots left to delete.
RestoreCustomVolumeLoop(o, todo) ==
    IF todo = <<>>
    THEN [o EXCEPT !.todo = <<>>, !.pc = "RestoreVolumeRetry"]
    ELSE [o EXCEPT !.todo = Tail(todo), !.cur = Head(todo), !.pc = "snap.VolumeDBGet"]

RestoreCustomVolume_Step ==
    /\ op.kind = "RestoreCustomVolume"
    /\ LET k == Vol(op.vt, op.name, NoSnap)
           src == Vol(op.vt, op.name, op.snap) IN
       \E fault \in FaultChoice :
        /\ InjectFault(fault)
        /\ CASE op.pc = "VolumeDBGet" ->
                /\ SetSt(St)
                /\ IF fault \/ k \notin db \/ src \notin db
                   THEN op' = Fail(op, fault)
                   ELSE op' = Goto(op, "RestoreVolume")
          [] op.pc = "RestoreVolume" ->
                /\ SetSt(St)
                /\ \E res \in RestoreVolumeResults(St, op) :
                    LET named == SelectSeq(SnapOrder, LAMBDA s : s \in res)
                        r == RestoreVolumeFirst(op, fault, res, named, "snap.loop") IN
                    op' = IF fault THEN r
                          ELSE IF res = {} THEN Succeed(r)
                          ELSE RestoreCustomVolumeLoop(r, named)
          [] op.pc \in SnapshotPcs ->
                LET r == DeleteCustomVolumeSnapshotStep(op, St, fault,
                                                        RestoreCustomVolumeLoop(op, op.todo)) IN
                op' = r.o /\ SetSt(r.S)
          [] op.pc = "RestoreVolumeRetry" ->
                /\ SetSt(St)
                /\ \E res \in RestoreVolumeResults(St, op) :
                    LET c == [op EXCEPT !.calls = @ + 1] IN
                    op' = IF fault \/ res # {}
                          THEN Fail([c EXCEPT !.retryErr = TRUE], fault)
                          ELSE Succeed(c)
          [] OTHER -> FALSE
    /\ UNCHANGED volRest

(***************************************************************************)
(* Storage pools: Mount, Unmount and Delete, and the process-wide set of   *)
(* unavailable pools.  Each call runs to completion in one step; failAt    *)
(* names the step of the call that returns an error ("" for none).         *)
(***************************************************************************)
Pools == {"p1", "p2", "p3"}

\* driver.Info() of each pool's driver.
DriverInfo ==
    [p \in Pools |->
        CASE p = "p1" -> [Remote |-> FALSE, MountedRoot |-> FALSE]
          [] p = "p2" -> [Remote |-> TRUE, MountedRoot |-> TRUE]
          [] OTHER    -> [Remote |-> TRUE, MountedRoot |-> FALSE]]

ClientTypeNormal == "normal"
ClientTypes == {ClientTypeNormal, "notifier"}

NoPoolCall == [call |-> "none", pool |-> "", err |-> FALSE, before |-> FALSE]
PoolCall(call, p, err) ==
    [call |-> call, pool |-> p, err |-> err, before |-> p \in unavailablePools]

\* The first revert hook of Mount: mark the pool unavailable.
MarkUnavailable(U, p) == U \cup {p}

MarkAvailable_Keep(U, p) == U

\* The end of a successful Mount and of a completed Delete: delete(unavailablePools, name).
MarkAvailable(U, p) == U \ {p}

MountFailures == {"", "MkdirAll", "driver.Mount", "createStorageStructure"}

Mount(p, failAt, unmountFails) ==
    LET hadDir == p \in poolDir
        ourMount == p \notin poolMounted
        err == failAt # ""
        \* revert.Fail(): Unmount if the call mounted the pool, then mark it unavailable.
        mountedAfter ==
            CASE failAt = "" -> poolMounted \cup {p}
              [] failAt = "createStorageStructure" /\ ourMount /\ unmountFails -> poolMounted \cup {p}
              [] OTHER -> poolMounted
    IN  /\ failAt = "MkdirAll" => ~hadDir
        /\ unmountFails => (failAt = "createStorageStructure" /\ ourMount)
        /\ poolDir' = IF failAt = "MkdirAll" THEN poolDir ELSE poolDir \cup {p}
        /\ poolMounted' = mountedAfter
        /\ unavailablePools' = IF err THEN MarkUnavailable(unavailablePools, p)
                               ELSE MarkAvailable(unavailablePools, p)
        /\ lastPoolCall' = PoolCall("Mount", p, err)
        /\ UNCHANGED poolRest

Unmount(p, fails) ==
    /\ poolMounted' = IF fails THEN poolMounted ELSE poolMounted \ {p}
    /\ lastPoolCall' = PoolCall("Unmount", p, fails)
    /\ UNCHANGED <<unavailablePools, poolDir, poolRest>>

DeleteFailures ==
    {"", "warningsDelete", "driver.Unmount", "RemoveAll", "DeleteVolume", "driver.Delete", "Remove"}

Delete(p, clientType, failAt) ==
    LET remote == clientType # ClientTypeNormal /\ DriverInfo[p].Remote
        unmounts == remote /\ DriverInfo[p].MountedRoot
        removesAll == remote /\ ~DriverInfo[p].MountedRoot
        gone == p \notin poolDir
        err == failAt # ""
        \* The branch on the client type and the driver completed; os.Remove completed.
        branchDone == failAt \in {"", "Remove"}
        removeDone == failAt = ""
    IN  /\ gone => failAt \in {"", "warningsDelete"}
        /\ failAt = "driver.Unmount" => unmounts
        /\ failAt = "RemoveAll" => removesAll
        /\ failAt \in {"DeleteVolume", "driver.Delete"} => ~remote
        /\ IF gone
           THEN UNCHANGED <<unavailablePools, poolDir, poolMounted>>
           ELSE /\ poolMounted' = IF branchDone /\ (unmounts \/ ~remote)
                                  THEN poolMounted \ {p} ELSE poolMounted
                /\ poolDir' = IF (branchDone /\ removesAll) \/ removeDone
                              THEN poolDir \ {p} ELSE poolDir
                /\ unavailablePools' = IF err THEN unavailablePools
                                       ELSE MarkAvailable(unavailablePools, p)
        /\ lastPoolCall' = [PoolCall("Delete", p, err) EXCEPT !.call =
                                IF gone THEN "DeleteGone" ELSE "Delete"]
        /\ UNCHANGED poolRest

InitPool ==
    /\ unavailablePools = {}
    /\ poolDir = {}
    /\ poolMounted = {}
    /\ lastPoolCall = NoPoolCall

(***************************************************************************)
(* Create of a pool, step by step: the mount path, the pool on the storage *)
(* device, the mount, the directory structure, and the compensating        *)
(* actions, whose errors are dropped and which are taken to succeed.       *)
(***************************************************************************)
IdleCreate ==
    [pc |-> "idle", pool |-> "", clientType |-> "", hooks |-> <<>>, registered |-> <<>>,
     ran |-> <<>>, ourMount |-> FALSE, err |-> "",
     pre |-> [poolDir |-> {}, driverPools |-> {}, poolMounted |-> {}]]

IsDir_Never(dirs, p) == FALSE

\* shared.IsDir(path) of the pool's mount path.
IsDir(dirs, p) == p \in dirs

Create_Call(p, clientType) ==
    /\ createOp.pc = "idle"
    /\ createOp' = [IdleCreate EXCEPT !.pc = "Validate", !.pool = p, !.clientType = clientType,
                        !.pre = [poolDir |-> poolDir, driverPools |-> driverPools,
                                 poolMounted |-> poolMounted]]
    /\ UNCHANGED <<poolVars, driverPools, createRest>>

\* return err: the deferred Unmount runs first (it was deferred last), then revert.Fail.
CreateFail(o, step, mounted) ==
    /\ createOp' = [o EXCEPT !.err = step, !.registered = o.hooks, !.ourMount = FALSE,
                             !.pc = IF o.hooks = <<>> THEN "returned" ELSE "revert"]
    /\ poolMounted' = IF o.ourMount THEN mounted \ {o.pool} ELSE mounted

Create_Step(fault) ==
    /\ createOp.pc \notin {"idle", "revert", "returned"}
    /\ LET o == createOp
           p == o.pool
           pc == o.pc
           remote == DriverInfo[p].Remote /\ o.clientType # ClientTypeNormal
           next(to) == createOp' = [o EXCEPT !.pc = to]
           push(h, to) == createOp' = [o EXCEPT !.hooks = Append(@, h), !.pc = to]
           keep == UNCHANGED <<poolDir, driverPools, poolMounted>>
       IN
       CASE pc = "Validate" ->
                IF fault THEN CreateFail(o, pc, poolMounted) /\ UNCHANGED <<poolDir, driverPools>>
                ELSE next("IsDir") /\ keep
         [] pc = "IsDir" ->
                /\ ~fault
                /\ IF IsDir(poolDir, p)
                   THEN CreateFail(o, pc, poolMounted) /\ UNCHANGED <<poolDir, driverPools>>
                   ELSE next("MkdirAll") /\ keep
         [] pc = "MkdirAll" ->
                IF fault THEN CreateFail(o, pc, poolMounted) /\ UNCHANGED <<poolDir, driverPools>>
                ELSE /\ poolDir' = poolDir \cup {p}
                     /\ UNCHANGED <<driverPools, poolMounted>>
                     /\ push("RemoveAll",
                             CASE ~remote -> "driver.Create"
                               [] DriverInfo[p].MountedRoot -> "Success"
                               [] OTHER -> "createStorageStructure")
         [] pc = "driver.Create" ->
                IF fault
                THEN CreateFail(o, pc, poolMounted) /\ UNCHANGED <<poolDir, driverPools>>
                ELSE /\ driverPools' = driverPools \cup {p}
                     /\ UNCHANGED <<poolDir, poolMounted>>
                     /\ push("driver.Delete", "driver.Mount")
         [] pc = "driver.Mount" ->
                IF fault THEN CreateFail(o, pc, poolMounted) /\ UNCHANGED <<poolDir, driverPools>>
                ELSE /\ poolMounted' = poolMounted \cup {p}
                     /\ UNCHANGED <<poolDir, driverPools>>
                     /\ createOp' = [o EXCEPT !.ourMount = p \notin poolMounted,
                                              !.pc = "createStorageStructure"]
         [] pc = "createStorageStructure" ->
                IF fault THEN CreateFail(o, pc, poolMounted) /\ UNCHANGED <<poolDir, driverPools>>
                ELSE next("Success") /\ keep
         [] pc = "Success" ->
                \* revert.Success(), return nil and the deferred Unmount
                /\ ~fault
                /\ createOp' = [o EXCEPT !.pc = "returned", !.hooks = <<>>, !.ourMount = FALSE]
                /\ poolMounted' = IF o.ourMount THEN poolMounted \ {p} ELSE poolMounted
                /\ UNCHANGED <<poolDir, driverPools>>
         [] OTHER -> FALSE
    /\ UNCHANGED <<unavailablePools, lastPoolCall, createRest>>

\* revert.Fail: the compensating actions run last registered first.
Create_Revert ==
    /\ createOp.pc = "revert"
    /\ LET n == Len(createOp.hooks)
           hk == createOp.hooks[n] IN
        /\ poolDir' = IF hk = "RemoveAll" THEN poolDir \ {createOp.pool} ELSE poolDir
        /\ driverPools' = IF hk = "driver.Delete" THEN driverPools \ {createOp.pool}
                           ELSE driverPools
        /\ createOp' = [createOp EXCEPT !.hooks = SubSeq(@, 1, n - 1), !.ran = Append(@, hk),
                                        !.pc = IF n = 1 THEN "returned" ELSE "revert"]
    /\ UNCHANGED <<unavailablePools, poolMounted, lastPoolCall, createRest>>

Create_Return ==
    /\ createOp.pc = "returned"
    /\ createOp' = IdleCreate
    /\ UNCHANGED <<poolVars, driverPools, createRest>>

InitCreate == driverPools = {} /\ createOp = IdleCreate

(***************************************************************************)
(* CreateInstanceFromMigration: the description and config of each         *)
(* received snapshot's record, taken from the index header of the source   *)
(* or from the parent volume.                                              *)
(***************************************************************************)
HeaderSnapNames == {"s1", "s2", "s3"}
NilEntry == [name |-> ""]
HeaderEntries == {NilEntry} \cup [name : HeaderSnapNames]

\* args.Snapshots: the names of the snapshots being received, no name twice.
ReceivedLists ==
    {<<>>} \cup {<<a>> : a \in HeaderSnapNames}
           \cup ({<<a, b>> : a, b \in HeaderSnapNames} \ {<<a, a>> : a \in HeaderSnapNames})

\* srcInfo.Config.VolumeSnapshots, or no header at all (srcInfo == nil).
NoHeader == <<[name |-> "nil"]>>
HeaderLists ==
    {<<>>} \cup {<<a>> : a \in HeaderEntries} \cup {<<a, b>> : a, b \in HeaderEntries}

NoSnapRecCall == [op |-> "none", snaps |-> <<>>, header |-> <<>>, from |-> <<>>, panic |-> FALSE]

\* The entry of the header with the name of the snapshot, wherever it is in the list.
HeaderEntry_ByName(header, i, snapName) ==
    IF \E k \in 1..Len(header) : header[k].name = snapName THEN "header" ELSE "parent"

\* The i-th snapshot (counted from 1) reads the header's i-th entry:
\* len(VolumeSnapshots) >= i-1 counted from 0 is no bound on the index, so that the
\* read of an entry past the end of the list stops the program (index out of range).
HeaderEntry(header, i, snapName) ==
    IF Len(header) >= (i - 1) - 1
    THEN IF i > Len(header) THEN "panic"
         ELSE IF header[i] # NilEntry /\ header[i].name = snapName THEN "header"
         ELSE "parent"
    ELSE "parent"

\* The loop over args.Snapshots; it ends at the first read outside the list.
SnapshotRecords_Call(snaps, header) ==
    LET from == [i \in 1..Len(snaps) |->
                    IF header = NoHeader THEN "parent" ELSE HeaderEntry(header, i, snaps[i])]
        stop == {i \in 1..Len(snaps) : from[i] = "panic"}
        last == IF stop = {} THEN Len(snaps) ELSE (CHOOSE i \in stop : \A k \in stop : i <= k) - 1
    IN  /\ snapRecCall' = [op |-> "CreateInstanceFromMigration", snaps |-> snaps,
                           header |-> header, from |-> SubSeq(from, 1, last),
                           panic |-> stop # {}]
        /\ UNCHANGED <<quotaCall, csnap, callRest>>

(***************************************************************************)
(* SetInstanceQuota: the quota of the instance's volume and, for a virtual *)
(* machine's block volume, of its config filesystem volume.                *)
(***************************************************************************)
QuotaSizes == {"", "10GiB", "20GiB", "30GiB"}
StateSizes == {"", "1GiB", "2GiB", "4GiB"}
DefaultVMBlockFilesystemSize == "100MiB"
QuotaFailures == {"", "VolumeDBGet", "SetVolumeQuota", "SetVolumeQuota.fsVol"}

NoQuotaCall ==
    [op |-> "none", vmBlock |-> FALSE, size |-> "", vmStateSize |-> "", quotas |-> <<>>,
     err |-> ""]

CompanionSize_Given(size, vmStateSize) == vmStateSize

\* The size for the config filesystem volume.
CompanionSize(size, vmStateSize) ==
    IF vmStateSize = "" /\ size # "" THEN DefaultVMBlockFilesystemSize ELSE vmStateSize

\* quotas: the driver's SetVolumeQuota calls that succeeded, in order.
SetInstanceQuota(vmBlock, size, vmStateSize, failAt) ==
    LET main == <<[vol |-> "main", size |-> size]>>
        fs == <<[vol |-> "fsVol", size |-> CompanionSize(size, vmStateSize)]>>
        quotas == CASE failAt \in {"VolumeDBGet", "SetVolumeQuota"} -> <<>>
                    [] ~vmBlock \/ failAt = "SetVolumeQuota.fsVol" -> main
                    [] OTHER -> main \o fs
        err == IF failAt = "SetVolumeQuota.fsVol" /\ ~vmBlock THEN "" ELSE failAt
    IN  /\ quotaCall' = [op |-> "SetInstanceQuota", vmBlock |-> vmBlock, size |-> size,
                         vmStateSize |-> vmStateSize, quotas |-> quotas, err |-> err]
        /\ UNCHANGED <<snapRecCall, csnap, callRest>>

(***************************************************************************)
(* The status check of the operations that produce a volume.               *)
(***************************************************************************)
PoolStatuses == {"Pending", "Created"}
\* The states of a pool on a cluster member; "": the member has no node record of the pool.
NodeStates == {"", "Pending", "Created"}

\* Status: the status of the pool's record.
Status(p) == poolStatus[p]

LocalStatus_NodeOnly(p, unavailable) == IF nodeState[p] = "" THEN "Unknown" ELSE nodeState[p]

\* LocalStatus: "Unavailable" for a pool in unavailablePools, whatever its record says;
\* else the state of the pool on this member.
LocalStatus(p, unavailable) ==
    IF p \in unavailable THEN "Unavailable"
    ELSE IF nodeState[p] = "" THEN "Unknown"
    ELSE nodeState[p]

\* isStatusReady: a plain error for a pending pool, an error of the service-unavailable
\* kind for a pool that is unavailable on this server (LocalStatus() is "Unavailable" for
\* a pool in unavailablePools), nil otherwise.
isStatusReady(status, unavailable) ==
    IF status = "Pending" THEN "error"
    ELSE IF unavailable THEN "ServiceUnavailable"
    ELSE "nil"

VolumeOps ==
    {"CreateInstance", "CreateInstanceFromImage", "CreateInstanceFromCopy",
     "CreateInstanceFromMigration", "RefreshInstance", "CreateCustomVolume", "EnsureImage"}

\* The operations that start with b.isStatusReady().
ChecksStatus(opn) == opn # "RefreshInstance"

NoVolCall ==
    [op |-> "none", pool |-> "", ready |-> "nil", err |-> "nil",
     db |-> FALSE, disk |-> FALSE, symlink |-> FALSE]

\* What a call has created when it returns: nothing after an error (the revert chain has
\* run), its records, volumes and symlink after a success.
Created(opn, pool, ready, err, made) ==
    [op |-> opn, pool |-> pool, ready |-> ready, err |-> err,
     db |-> made, disk |-> made,
     symlink |-> made /\ opn \notin {"CreateCustomVolume", "EnsureImage"}]

\* A call of a volume-producing operation on pool p.  samePool: the source of a
\* RefreshInstance is on p too; fails: a step after the status check fails.
VolumeCall(opn, p, samePool, fails) ==
    LET ready == isStatusReady(poolStatus[p], p \in unavailablePools)
        proceed == IF fails THEN Created(opn, p, ready, "error", FALSE)
                   ELSE Created(opn, p, ready, "nil", TRUE)
    IN  /\ samePool => opn = "RefreshInstance"
        /\ lastVolCall' =
              CASE ChecksStatus(opn) /\ ready # "nil" -> Created(opn, p, ready, ready, FALSE)
                [] ChecksStatus(opn) -> proceed
                \* RefreshInstance checks nothing itself: on the same pool it creates the
                \* snapshot records and calls driver.RefreshVolume
                [] samePool -> proceed
                \* between pools its receiver, CreateInstanceFromMigration, checks
                [] ready # "nil" -> Created(opn, p, ready, ready, FALSE)
                [] OTHER -> proceed
        /\ UNCHANGED <<poolStatus, nodeState, volVars, poolVars, imgVars, xfer, updateVars, rf, snapVars, cvolVars, scan, lastImport, cp, createVars, callVars>>

InitReady ==
    /\ poolStatus = [p \in Pools |-> "Created"]
    /\ nodeState = [p \in Pools |-> "Created"]
    /\ lastVolCall = NoVolCall

(***************************************************************************)
(* EnsureImage and DeleteImage: the cached image volume of one fingerprint *)
(* on the pool ImgPool.  Several processes call concurrently; each call    *)
(* runs step by step, a step being one access to the lock table, the       *)
(* database or the driver.                                                 *)
(***************************************************************************)
Procs == 1..NumProcs
ImgPool == "p1"
OptimizedImages_Always(pool) == TRUE

OptimizedImages(pool) == pool = ImgPool

\* Pool settings for new volumes: block mode, block.filesystem, volume.size (0: not set).
PoolDefaults == [block : BOOLEAN, fs : {"ext4", "xfs"}, size : {0, 1, 2}]

\* No record (size: volatile.rootfs.size); no on-disk volume (size: the volume's size).
ImgNone == [exists |-> FALSE, block |-> FALSE, fs |-> "", size |-> 0]
DiskNone == [exists |-> FALSE, block |-> FALSE, fs |-> "", size |-> 0, full |-> FALSE]

\* driver.FillVolumeConfig on a volume without config: the pool's settings for new volumes.
FillVolumeConfig(d) ==
    [exists |-> TRUE, block |-> d.block, fs |-> IF d.block THEN d.fs ELSE "", size |-> 0]

blockModeChanged(tmpImgVol, imgVol) == tmpImgVol.block # imgVol.block

blockFSChanged_Always(tmpImgVol, imgVol) == imgVol.block

blockFSChanged_Never(tmpImgVol, imgVol) == FALSE

blockFSChanged(tmpImgVol, imgVol) == imgVol.block /\ imgVol.fs # tmpImgVol.fs

\* The size the image filler records: the unpacked size when the volume took its size
\* from the image, 0 when the pool sets volume.size.
FillerSize(d) == IF d.size = 0 THEN ImageSize ELSE 0

\* driver.CreateVolume before the filler has run, and the volume after it.
NewImageVolume(d) ==
    [exists |-> TRUE, block |-> d.block, fs |-> IF d.block THEN d.fs ELSE "",
     size |-> IF d.size = 0 THEN ImageSize ELSE d.size, full |-> FALSE]

\* imgVol.ConfigSizeFromSource: the pool's volume.size, else the record's
\* volatile.rootfs.size, else the size of the image.
ConfigSizeFromSource(imgDBVol, d) ==
    IF d.size # 0 THEN d.size ELSE IF imgDBVol.size # 0 THEN imgDBVol.size ELSE ImageSize

\* driver.SetVolumeQuota on the existing volume: no change for the same size, a resize for
\* a larger one, ErrCannotBeShrunk for a smaller one.
SetVolumeQuota(vol, size) ==
    IF size < vol.size THEN [err |-> "ErrCannotBeShrunk", vol |-> vol]
    ELSE [err |-> "", vol |-> [vol EXCEPT !.size = size]]

\* The names of the locks on the image volume.  The driver's volume-level lock is named
\* by the volume's type and name; the locks of EnsureImage and DeleteImage carry the
\* operation's name as well (drivers.OperationLockName).
VolumeLock == "image_fingerprint"
EnsureImageLock_VolumeName == VolumeLock
EnsureImageLock == "EnsureImage_image_fingerprint"
DeleteImageLock == "DeleteImage_image_fingerprint"
ImageLockNames == {EnsureImageLock, DeleteImageLock, VolumeLock}

LockFree_Always(holder) == TRUE

\* locking.Lock returns when no other call holds the named lock.
LockFree(holder) == holder = 0

\* repeat: an EnsureImage call had returned success before the call was made; pre: the
\* image volume as such a call found it.
IdleProc ==
    [pc |-> "idle", kind |-> "", pool |-> "", imgDBVol |-> ImgNone, ret |-> "", hooks |-> <<>>,
     err |-> FALSE, pre |-> [rec |-> ImgNone, disk |-> DiskNone, unpacks |-> 0],
     repeat |-> FALSE]

\* The call returns: the deferred unlock releases the EnsureImage lock if the call holds it.
\* CreateInstanceFromImage goes on when its EnsureImage call has returned without error,
\* and returns the error otherwise.
ImageFinish(p, err) ==
    /\ proc' = [proc EXCEPT ![p] =
            [@ EXCEPT !.pc = IF proc[p].kind = "CreateInstanceFromImage" /\ ~err
                             THEN "CreateInstanceFromImage.VolumeDBGet" ELSE "done",
                      !.err = err, !.hooks = <<>>, !.imgDBVol = ImgNone]]
    /\ locks' = [locks EXCEPT ![EnsureImageLock] = IF @ = p THEN 0 ELSE @,
                              ![DeleteImageLock] = IF @ = p THEN 0 ELSE @]
    /\ ensured' = IF ~err /\ proc[p].kind = "EnsureImage" /\ ensured < MaxCalls
                  THEN ensured + 1 ELSE ensured

ImageGoto(p, pc) ==
    /\ proc' = [proc EXCEPT ![p].pc = pc]
    /\ UNCHANGED <<locks, ensured>>

\* Failure with registered compensating actions: they run first.
ImageFail(p) ==
    IF proc[p].hooks = <<>>
    THEN ImageFinish(p, TRUE)
    ELSE /\ proc' = [proc EXCEPT ![p].pc = "revert"]
         /\ UNCHANGED <<locks, ensured>>

EnsureImage_Call(p, pool) ==
    /\ proc[p].pc = "idle"
    /\ proc' = [proc EXCEPT ![p] =
            [IdleProc EXCEPT !.pc = "isStatusReady", !.pool = pool, !.kind = "EnsureImage",
                             !.pre = IF ensured > 0
                                     THEN [rec |-> imgRec, disk |-> imgDisk, unpacks |-> unpacks]
                                     ELSE @,
                             !.repeat = ensured > 0]]
    /\ UNCHANGED <<imgRec, imgDisk, poolDefault, locks, unpacks, ensured, imgRest>>

DeleteImage_Call(p) ==
    /\ proc[p].pc = "idle"
    /\ proc' = [proc EXCEPT ![p] = [IdleProc EXCEPT !.pc = "DeleteImage.Lock", !.pool = ImgPool,
                                                    !.kind = "DeleteImage", !.ret = "return"]]
    /\ UNCHANGED <<imgRec, imgDisk, poolDefault, locks, unpacks, ensured, imgRest>>

\* The caller has the result.
ImageReturn(p) ==
    /\ proc[p].pc = "done"
    /\ proc' = [proc EXCEPT ![p] = IdleProc]
    /\ UNCHANGED <<imgRec, imgDisk, poolDefault, locks, unpacks, ensured, imgRest>>

\* DeleteImage, called on its own or from EnsureImage (which goes on at proc[p].ret).
DeleteImage_Step(p, fault) ==
    /\ proc[p].pc \in {"DeleteImage.Lock", "DeleteImage.VolumeDBGet", "DeleteImage.DeleteVolume",
                       "DeleteImage.VolumeDBDelete"}
    /\ LET pc == proc[p].pc
           \* the deferred unlock of DeleteImage, and EnsureImage's return of its error
           failed == /\ ImageFinish(p, TRUE)
                     /\ UNCHANGED <<imgRec, imgDisk>>
       IN
       CASE pc = "DeleteImage.Lock" ->
                /\ LockFree(locks[DeleteImageLock])
                /\ ~fault
                /\ locks' = [locks EXCEPT ![DeleteImageLock] = p]
                /\ proc' = [proc EXCEPT ![p].pc = "DeleteImage.VolumeDBGet"]
                /\ UNCHANGED <<imgRec, imgDisk, ensured>>
         [] pc = "DeleteImage.VolumeDBGet" ->
                IF fault \/ ~imgRec.exists
                THEN failed
                ELSE ImageGoto(p, "DeleteImage.DeleteVolume") /\ UNCHANGED <<imgRec, imgDisk>>
         [] pc = "DeleteImage.DeleteVolume" ->
                IF fault
                THEN failed
                ELSE \* the driver holds the volume's lock while it unmounts and deletes
                     /\ LockFree(locks[VolumeLock])
                     /\ imgDisk' = DiskNone
                     /\ ImageGoto(p, "DeleteImage.VolumeDBDelete")
                     /\ UNCHANGED imgRec
         [] pc = "DeleteImage.VolumeDBDelete" ->
                IF fault
                THEN failed
                ELSE /\ imgRec' = ImgNone
                     /\ UNCHANGED imgDisk
                     /\ IF proc[p].ret = "return"
                        THEN ImageFinish(p, FALSE)
                        ELSE /\ proc' = [proc EXCEPT ![p] = [@ EXCEPT !.pc = proc[p].ret,
                                                                     !.imgDBVol = ImgNone]]
                             /\ locks' = [locks EXCEPT ![DeleteImageLock] = 0]
                             /\ UNCHANGED ensured
    /\ UNCHANGED <<poolDefault, unpacks, imgRest>>

EnsureImage_Step(p, fault) ==
    /\ proc[p].kind \in {"EnsureImage", "CreateInstanceFromImage"}
    /\ LET pc == proc[p].pc
           imgDBVol == proc[p].imgDBVol
           same == UNCHANGED <<imgRec, imgDisk, unpacks>>
       IN
       CASE pc = "isStatusReady" ->
                /\ ~fault
                /\ same
                /\ IF isStatusReady(poolStatus[proc[p].pool], proc[p].pool \in unavailablePools) # "nil"
                   THEN ImageFinish(p, TRUE)
                   ELSE IF ~OptimizedImages(proc[p].pool)
                   THEN ImageFinish(p, FALSE)
                   ELSE ImageGoto(p, "Lock")
         [] pc = "Lock" ->
                /\ LockFree(locks[EnsureImageLock])
                /\ ~fault
                /\ same
                /\ locks' = [locks EXCEPT ![EnsureImageLock] = p]
                /\ proc' = [proc EXCEPT ![p].pc = "VolumeDBGet"]
                /\ UNCHANGED ensured
         [] pc = "VolumeDBGet" ->
                /\ same
                /\ IF fault
                   THEN ImageFinish(p, TRUE)
                   ELSE LET tmpImgVol == FillVolumeConfig(poolDefault)
                            regen == /\ imgRec.exists
                                     /\ \/ blockModeChanged(tmpImgVol, imgRec)
                                        \/ blockFSChanged(tmpImgVol, imgRec) IN
                        /\ proc' = [proc EXCEPT ![p] =
                                [@ EXCEPT !.imgDBVol = imgRec,
                                          !.pc = IF regen THEN "DeleteImage.Lock" ELSE "HasVolume",
                                          !.ret = "HasVolume"]]
                        /\ UNCHANGED <<locks, ensured>>
         [] pc = "HasVolume" ->
                /\ same
                /\ IF fault
                   THEN ImageFinish(p, TRUE)
                   ELSE ImageGoto(p, CASE imgDisk.exists /\ imgDBVol.exists -> "SetVolumeQuota"
                                       [] imgDisk.exists /\ ~imgDBVol.exists -> "DeleteVolume"
                                       [] OTHER -> "VolumeDBCreate")
         [] pc = "SetVolumeQuota" ->
                LET r == SetVolumeQuota(imgDisk, ConfigSizeFromSource(imgDBVol, poolDefault)) IN
                IF fault
                THEN same /\ ImageFinish(p, TRUE)
                ELSE IF r.err = "ErrCannotBeShrunk"
                THEN /\ same
                     /\ proc' = [proc EXCEPT ![p] = [@ EXCEPT !.pc = "DeleteImage.Lock",
                                                              !.ret = "VolumeDBCreate"]]
                     /\ UNCHANGED <<locks, ensured>>
                ELSE /\ imgDisk' = r.vol
                     /\ UNCHANGED <<imgRec, unpacks>>
                     /\ ImageFinish(p, FALSE)
         [] pc = "DeleteVolume" ->
                IF fault
                THEN same /\ ImageFinish(p, TRUE)
                ELSE /\ imgDisk' = DiskNone
                     /\ UNCHANGED <<imgRec, unpacks>>
                     /\ ImageGoto(p, "VolumeDBCreate")
         [] pc = "VolumeDBCreate" ->
                IF fault \/ imgRec.exists
                THEN same /\ ImageFinish(p, TRUE)
                ELSE /\ imgRec' = FillVolumeConfig(poolDefault)
                     /\ UNCHANGED <<imgDisk, unpacks>>
                     /\ proc' = [proc EXCEPT ![p] = [@ EXCEPT !.pc = "CreateVolume",
                                                              !.hooks = <<"VolumeDBDelete">>]]
                     /\ UNCHANGED <<locks, ensured>>
         [] pc = "CreateVolume" ->
                IF fault \/ imgDisk.exists
                THEN same /\ ImageFail(p)
                ELSE \* the driver locks the volume to mount it for the filler
                     /\ LockFree(locks[VolumeLock])
                     /\ locks' = [locks EXCEPT ![VolumeLock] = p]
                     /\ imgDisk' = NewImageVolume(poolDefault)
                     /\ UNCHANGED <<imgRec, unpacks, ensured>>
                     /\ proc' = [proc EXCEPT ![p].pc = "Fill"]
         [] pc = "Fill" ->
                IF fault
                THEN \* the driver removes the volume it created when the filler fails
                     /\ imgDisk' = DiskNone
                     /\ UNCHANGED <<imgRec, unpacks, ensured>>
                     /\ locks' = [locks EXCEPT ![VolumeLock] = 0]
                     /\ proc' = [proc EXCEPT ![p].pc = "revert"]
                ELSE /\ unpacks < MaxUnpacks
                     /\ imgDisk' = [imgDisk EXCEPT !.full = TRUE]
                     /\ unpacks' = unpacks + 1
                     /\ UNCHANGED imgRec
                     /\ proc' = [proc EXCEPT ![p] = [@ EXCEPT !.pc = "UpdateStoragePoolVolume",
                                                              !.hooks = Append(@, "DeleteVolume")]]
                     /\ locks' = [locks EXCEPT ![VolumeLock] = 0]
                     /\ UNCHANGED ensured
         [] pc = "UpdateStoragePoolVolume" ->
                IF FillerSize(poolDefault) = 0
                THEN ~fault /\ same /\ ImageFinish(p, FALSE)
                ELSE IF fault
                THEN same /\ ImageFail(p)
                ELSE /\ imgRec' = [imgRec EXCEPT !.size = FillerSize(poolDefault)]
                     /\ UNCHANGED <<imgDisk, unpacks>>
                     /\ ImageFinish(p, FALSE)
         [] pc = "revert" ->
                LET n == Len(proc[p].hooks)
                    hk == proc[p].hooks[n] IN
                /\ ~fault
                /\ imgDisk' = IF hk = "DeleteVolume" THEN DiskNone ELSE imgDisk
                /\ imgRec' = IF hk = "VolumeDBDelete" THEN ImgNone ELSE imgRec
                /\ UNCHANGED unpacks
                /\ IF n = 1
                   THEN ImageFinish(p, TRUE)
                   ELSE /\ proc' = [proc EXCEPT ![p].hooks = SubSeq(@, 1, n - 1)]
                        /\ UNCHANGED <<locks, ensured>>
         [] OTHER -> FALSE
    /\ UNCHANGED <<poolDefault, imgRest>>

\* CreateInstanceFromImage on a driver with optimized images: the instance's record,
\* EnsureImage (the steps above), the image's record, and the copy of the image volume
\* into the instance's volume, for which the driver holds the volume-level lock.
CreateInstanceFromImage_Call(p) ==
    /\ proc[p].pc = "idle"
    /\ proc' = [proc EXCEPT ![p] =
            [IdleProc EXCEPT !.pc = "CreateInstanceFromImage.VolumeDBCreate", !.pool = ImgPool,
                             !.kind = "CreateInstanceFromImage"]]
    /\ UNCHANGED <<imgRec, imgDisk, poolDefault, locks, unpacks, ensured, imgRest>>

CreateInstanceFromImage_Step(p, fault) ==
    /\ proc[p].kind = "CreateInstanceFromImage"
    /\ LET pc == proc[p].pc
           return(err) == proc' = [proc EXCEPT ![p] = [@ EXCEPT !.pc = "done", !.err = err]]
       IN
       CASE pc = "CreateInstanceFromImage.VolumeDBCreate" ->
                IF fault THEN return(TRUE) ELSE proc' = [proc EXCEPT ![p].pc = "isStatusReady"]
         [] pc = "CreateInstanceFromImage.VolumeDBGet" ->
                IF fault \/ ~imgRec.exists
                THEN return(TRUE)
                ELSE proc' = [proc EXCEPT ![p].pc = "CreateInstanceFromImage.CreateVolumeFromCopy"]
         [] pc = "CreateInstanceFromImage.CreateVolumeFromCopy" ->
                IF fault
                THEN return(TRUE)
                ELSE /\ LockFree(locks[VolumeLock])
                     /\ return(~imgDisk.exists)
         [] OTHER -> FALSE
    /\ UNCHANGED <<imgRec, imgDisk, poolDefault, locks, unpacks, ensured, imgRest>>

\* The image volume an EnsureImage call made under the pool settings d.
ImageCreatedUnder(d) ==
    /\ imgRec = [FillVolumeConfig(d) EXCEPT !.size = FillerSize(d)]
    /\ imgDisk = [NewImageVolume(d) EXCEPT !.full = TRUE]

InitImage ==
    /\ imgRec = ImgNone
    /\ imgDisk = DiskNone
    /\ poolDefault = [block |-> TRUE, fs |-> "ext4", size |-> 0]
    /\ locks = [n \in ImageLockNames |-> 0]
    /\ proc = [p \in Procs |-> IdleProc]
    /\ unpacks = 0
    /\ ensured = 0

(***************************************************************************)
(* Update of the pool's config: the "size" and "block.filesystem" settings *)
(* of the pool ImgPool.                                                    *)
(***************************************************************************)
SizeStrings == {"", "512MiB", "1GiB", "1024MiB", "2GiB"}

\* units.ParseByteSizeString, in MiB: 0 for the empty string.
ParseByteSizeString(str) ==
    CASE str = "" -> 0
      [] str = "512MiB" -> 512
      [] str = "1GiB" -> 1024
      [] str = "1024MiB" -> 1024
      [] str = "2GiB" -> 2048

Shrinks_Never(oldSize, newSize) == FALSE

\* if newSizeBytes < oldSizeBytes: "Pool cannot be shrunk"
Shrinks(oldSize, newSize) == ParseByteSizeString(newSize) < ParseByteSizeString(oldSize)

Sources == {"/dev/sdb", "/dev/sdc"}

SourceChangeRefused_Never(sourceChanged, localStatus) == FALSE

\* "Pool source cannot be changed when not in pending state"
SourceChangeRefused(sourceChanged, localStatus) == sourceChanged /\ localStatus # "Pending"

NoUpdate ==
    [called |-> FALSE, err |-> FALSE, driverUpdate |-> FALSE, dbWrite |-> FALSE,
     oldSize |-> "", newSize |-> "", oldSource |-> "", newSource |-> "",
     localStatus |-> "", status |-> ""]

\* Update(clientType, newDesc, newConfig) with a new size, source and block.filesystem.
\* validateFails: driver.Validate rejects the config; driverFails, dbFails: driver.Update,
\* UpdateStoragePool fail if they are called.
Update(clientType, newSize, newSource, newFs, validateFails, driverFails, dbFails) ==
    LET sizeChanged == newSize # poolSize
        sourceChanged == newSource # poolSource
        fsChanged == newFs # poolDefault.fs
        changed == sizeChanged \/ sourceChanged \/ fsChanged
        localStatus == LocalStatus(ImgPool, unavailablePools)
        refused == \/ validateFails
                   \/ SourceChangeRefused(sourceChanged, localStatus)
                   \/ (sizeChanged /\ Shrinks(poolSize, newSize))
        \* the changes are applied to the local member unless the pool or the member's
        \* part of it is pending (none of the settings here is a user.* key)
        driverUpdate == /\ ~refused /\ changed
                        /\ Status(ImgPool) # "Pending" /\ localStatus # "Pending"
        dbWrite == /\ ~refused
                   /\ ~(driverUpdate /\ driverFails)
                   /\ clientType = ClientTypeNormal /\ changed
        written == dbWrite /\ ~dbFails
    IN  /\ \A p \in Procs : proc[p].pc = "idle"
        /\ driverFails => driverUpdate
        /\ dbFails => dbWrite
        /\ lastUpdate' = [called |-> TRUE,
                          err |-> refused \/ (driverUpdate /\ driverFails) \/ (dbWrite /\ dbFails),
                          driverUpdate |-> driverUpdate, dbWrite |-> dbWrite,
                          oldSize |-> poolSize, newSize |-> newSize,
                          oldSource |-> poolSource, newSource |-> newSource,
                          localStatus |-> localStatus, status |-> Status(ImgPool)]
        /\ poolSize' = IF written THEN newSize ELSE poolSize
        /\ poolSource' = IF written THEN newSource ELSE poolSource
        /\ poolDefault' = IF written THEN [poolDefault EXCEPT !.fs = newFs] ELSE poolDefault
        \* a new block.filesystem: the unpacks and the successful EnsureImage calls are
        \* counted from here
        /\ IF written /\ fsChanged
           THEN oldImage' = imgRec /\ unpacks' = 0 /\ ensured' = 0
           ELSE UNCHANGED <<oldImage, unpacks, ensured>>
        /\ UNCHANGED <<imgRec, imgDisk, locks, proc, volVars, poolVars, xfer, readyVars, rf, snapVars, cvolVars, scan, lastImport, cp, createVars, callVars>>

InitUpdate ==
    /\ poolSize = "1GiB"
    /\ poolSource = "/dev/sdb"
    /\ lastUpdate = NoUpdate
    /\ oldImage = ImgNone

(***************************************************************************)
(* Refresh of a target volume from a source volume: RefreshCustomVolume    *)
(* and RefreshInstance, executed step by step.                             *)
(***************************************************************************)
\* Snapshot names of the source and the target, in the order of their creation.
RefreshSnapOrder == <<"A", "B", "C", "D">>
RefreshSnapNames == {RefreshSnapOrder[i] : i \in 1..Len(RefreshSnapOrder)}

\* The names of S as a list, oldest first.
SnapshotList(S) ==
    LET member(x) == x \in S IN SelectSeq(RefreshSnapOrder, member)

\* CompareSnapshots on snapshots that carry a name only: the source snapshots to sync are
\* those the target lacks, the target snapshots to delete are those the source lacks.
SyncSourceSnapshots(source, target) == source \ target
DeleteTargetSnapshots(source, target) == target \ source

\* "Ensure that only the requested snapshots are included in the source config."
RequestedSnapshots(allSnapshots, sync) == allSnapshots \cap sync

RefreshCustomVolumeOrder_SyncFirst ==
    <<"CompareSnapshots", "VolumeDBCreate", "RefreshVolume", "DeleteCustomVolumeSnapshot",
      "returned">>

\* The order of the statements of RefreshCustomVolume and of RefreshInstance.
RefreshCustomVolumeOrder ==
    <<"CompareSnapshots", "DeleteCustomVolumeSnapshot", "VolumeDBCreate", "RefreshVolume",
      "returned">>

RefreshInstanceOrder == <<"VolumeDBCreate", "RefreshVolume", "returned">>

RefreshOrder(kind) ==
    IF kind = "custom" THEN RefreshCustomVolumeOrder ELSE RefreshInstanceOrder

NextRefreshPc(kind, pc) ==
    LET order == RefreshOrder(kind)
        i == CHOOSE j \in 1..Len(order) : order[j] = pc
    IN  order[i + 1]

IdleRefresh ==
    [kind |-> "idle", samePool |-> FALSE, snapshots |-> FALSE, src |-> {}, tgt0 |-> {},
     tgtDb |-> {}, tgtDisk |-> {}, pc |-> "idle", delete |-> <<>>, names |-> <<>>,
     create |-> <<>>, sync |-> <<>>, hooks |-> {}, log |-> <<>>, err |-> FALSE,
     faulted |-> FALSE]

\* RefreshCustomVolume of a target with the snapshots tgt from a source with the snapshots
\* src; snapshots: the caller asks for the snapshots too.
RefreshCustomVolume_Call(samePool, snapshots, src, tgt) ==
    /\ rf.kind = "idle"
    /\ rf' = [IdleRefresh EXCEPT !.kind = "custom", !.samePool = samePool,
                                 !.snapshots = snapshots, !.src = src, !.tgt0 = tgt,
                                 !.tgtDb = tgt, !.tgtDisk = tgt, !.pc = "CompareSnapshots"]
    /\ UNCHANGED refreshRest

\* RefreshInstance with the source snapshots the caller requests (srcSnapshots).
RefreshInstance_Call(samePool, src, srcSnapshots, tgt) ==
    /\ rf.kind = "idle"
    /\ srcSnapshots \subseteq src
    /\ rf' = [IdleRefresh EXCEPT !.kind = "instance", !.samePool = samePool,
                                 !.snapshots = (srcSnapshots # {}), !.src = src,
                                 !.tgt0 = tgt, !.tgtDb = tgt, !.tgtDisk = tgt,
                                 !.names = SnapshotList(srcSnapshots),
                                 !.create = SnapshotList(srcSnapshots),
                                 !.sync = SnapshotList(srcSnapshots),
                                 !.pc = "VolumeDBCreate"]
    /\ UNCHANGED refreshRest

\* An error return: revert.Fail() deletes the snapshot records the call created.
RefreshFail(r, fault) ==
    [r EXCEPT !.err = TRUE, !.faulted = fault, !.pc = "returned",
              !.tgtDb = @ \ r.hooks, !.hooks = {}]

Refresh_Step ==
    /\ rf.kind # "idle"
    /\ rf.pc # "returned"
    /\ LET r == rf
           next == NextRefreshPc(r.kind, r.pc) IN
       \E fail \in BOOLEAN :
       CASE r.pc = "CompareSnapshots" ->
                /\ ~fail
                /\ rf' = IF r.snapshots
                         THEN LET sync == RequestedSnapshots(r.src,
                                              SyncSourceSnapshots(r.src, r.tgtDb)) IN
                              [r EXCEPT !.delete = SnapshotList(DeleteTargetSnapshots(r.src, r.tgtDb)),
                                        !.names = SnapshotList(sync),
                                        !.create = SnapshotList(sync),
                                        !.sync = SnapshotList(sync),
                                        !.pc = next]
                         ELSE [r EXCEPT !.pc = next]
         [] r.pc = "DeleteCustomVolumeSnapshot" ->
                \* "Delete extra snapshots first."
                IF r.delete = <<>>
                THEN ~fail /\ rf' = [r EXCEPT !.pc = next]
                ELSE rf' = IF fail THEN RefreshFail(r, TRUE)
                           ELSE [r EXCEPT !.tgtDb = @ \ {Head(r.delete)},
                                          !.tgtDisk = @ \ {Head(r.delete)},
                                          !.log = Append(@, [ev |-> "delete", snap |-> Head(r.delete)]),
                                          !.delete = Tail(@)]
         [] r.pc = "VolumeDBCreate" ->
                \* a record for each snapshot to sync (between pools the receiver makes them)
                IF r.create = <<>>
                THEN ~fail /\ rf' = [r EXCEPT !.pc = next]
                ELSE rf' = IF fail \/ Head(r.create) \in r.tgtDb
                           THEN RefreshFail(r, fail)
                           ELSE [r EXCEPT !.tgtDb = @ \cup {Head(r.create)},
                                          !.hooks = @ \cup {Head(r.create)},
                                          !.create = Tail(@)]
         [] r.pc = "RefreshVolume" ->
                \* driver.RefreshVolume, or the transfer between pools: the snapshots to
                \* sync, oldest first, then the volume itself
                IF fail
                THEN rf' = RefreshFail([r EXCEPT !.tgtDisk = @ \ r.hooks], TRUE)
                ELSE IF r.sync # <<>>
                THEN rf' = [r EXCEPT !.tgtDisk = @ \cup {Head(r.sync)},
                                     !.log = Append(@, [ev |-> "sync", snap |-> Head(r.sync)]),
                                     !.sync = Tail(@)]
                ELSE rf' = [r EXCEPT !.log = Append(@, [ev |-> "sync", snap |-> ""]),
                                     !.hooks = {}, !.pc = next]
         [] r.pc = "returned" -> FALSE
    /\ UNCHANGED refreshRest

\* The caller has the result.
Refresh_Return ==
    /\ rf.pc = "returned"
    /\ rf' = IdleRefresh
    /\ UNCHANGED refreshRest

InitRefresh == rf = IdleRefresh

(***************************************************************************)
(* Snapshot creation: CreateInstanceSnapshot and CreateCustomVolumeSnapshot *)
(* called concurrently, executed step by step.                             *)
(***************************************************************************)
SnapCallers == {1, 2, 3}
SnapParents == {"v1", "v2"}
SnapKinds == {"CreateInstanceSnapshot", "CreateCustomVolumeSnapshot"}

\* drivers.OperationLockName of the call: the operation's name and the name of the
\* parent volume (the pool, the volume type and the content type follow from them).
OperationLockName(kind, parent) == <<kind, parent>>
SnapLockNames == {OperationLockName(k, v) : k \in SnapKinds, v \in SnapParents}

\* db: the record of the new snapshot exists; disk: the driver has made the snapshot.
IdleSnap ==
    [pc |-> "idle", kind |-> "", parent |-> "", db |-> FALSE, disk |-> FALSE, err |-> FALSE]

SnapLockOf(c) == OperationLockName(snapCall[c].kind, snapCall[c].parent)

\* Call c makes a snapshot of parent; each call makes a snapshot of its own name.
CreateSnapshot_Call(c, kind, parent) ==
    /\ snapCall[c].pc = "idle"
    /\ snapCall' = [snapCall EXCEPT ![c] = [IdleSnap EXCEPT !.pc = "VolumeDBCreate",
                                                           !.kind = kind, !.parent = parent]]
    /\ UNCHANGED <<snapLocks, snapRest>>

\* The call returns: the deferred unlock releases the lock if the call holds it, and
\* revert.Fail() deletes the record of the snapshot on an error.
SnapFinish(c, err) ==
    /\ snapCall' = [snapCall EXCEPT ![c] = [@ EXCEPT !.pc = "done", !.err = err,
                                                    !.db = IF err THEN FALSE ELSE @]]
    /\ snapLocks' = [n \in SnapLockNames |-> IF snapLocks[n] = c THEN 0 ELSE snapLocks[n]]

CreateSnapshot_Step(c) ==
    /\ LET s == snapCall[c] IN
       \E fail \in BOOLEAN :
       CASE s.pc = "VolumeDBCreate" ->
                IF fail THEN SnapFinish(c, TRUE)
                ELSE /\ snapCall' = [snapCall EXCEPT ![c] = [@ EXCEPT !.db = TRUE, !.pc = "Lock"]]
                     /\ UNCHANGED snapLocks
         [] s.pc = "Lock" ->
                \* "Other operations will wait for this one to finish."
                /\ ~fail
                /\ LockFree(snapLocks[SnapLockOf(c)])
                /\ snapLocks' = [snapLocks EXCEPT ![SnapLockOf(c)] = c]
                /\ snapCall' = [snapCall EXCEPT ![c] = [@ EXCEPT !.pc = "CreateVolumeSnapshot"]]
         [] s.pc = "CreateVolumeSnapshot" ->
                \* the driver's CreateVolumeSnapshot starts
                /\ ~fail
                /\ snapCall' = [snapCall EXCEPT ![c] = [@ EXCEPT !.pc = "driver"]]
                /\ UNCHANGED snapLocks
         [] s.pc = "driver" ->
                \* the driver's CreateVolumeSnapshot returns
                IF fail THEN SnapFinish(c, TRUE)
                ELSE IF s.kind = "CreateInstanceSnapshot"
                THEN /\ snapCall' = [snapCall EXCEPT ![c] =
                                        [@ EXCEPT !.disk = TRUE,
                                                  !.pc = "ensureInstanceSnapshotSymlink"]]
                     /\ UNCHANGED snapLocks
                ELSE \* SendLifecycle, revert.Success()
                     /\ snapCall' = [snapCall EXCEPT ![c] = [@ EXCEPT !.disk = TRUE,
                                                                     !.pc = "done"]]
                     /\ snapLocks' = [snapLocks EXCEPT ![SnapLockOf(c)] = 0]
         [] s.pc = "ensureInstanceSnapshotSymlink" -> SnapFinish(c, fail)
         [] s.pc \in {"idle", "done"} -> FALSE
    /\ UNCHANGED snapRest

\* The caller has the result.
CreateSnapshot_Return(c) ==
    /\ snapCall[c].pc = "done"
    /\ snapCall' = [snapCall EXCEPT ![c] = IdleSnap]
    /\ UNCHANGED <<snapLocks, snapRest>>

InitSnap ==
    /\ snapCall = [c \in SnapCallers |-> IdleSnap]
    /\ snapLocks = [n \in SnapLockNames |-> 0]

(***************************************************************************)
(* CreateCustomVolumeSnapshot called concurrently: the calls share the     *)
(* records and the storage device, and a call may name the volume and the  *)
(* snapshot another call names.                                            *)
(***************************************************************************)
CsnapCallers == {1, 2}
CsnapNames == {"s1", "s2"}

\* made: the call's own VolumeDBCreate succeeded; beside: the call failed while another
\* call for the same volume and snapshot name was running.
IdleCsnap ==
    [pc |-> "idle", name |-> "", snap |-> "", made |-> FALSE, err |-> FALSE, beside |-> FALSE]

csnapRest ==
    <<symlinks, snapSymlinks, op, faults, loopVarShared, dbConfig, poolVars, imgVars, xfer,
      readyVars, updateVars, rf, snapCall, cvolVars, scan, lastImport, cp, createVars,
      snapRecCall, quotaCall>>

CsnapLock(c) == OperationLockName("CreateCustomVolumeSnapshot", csnap[c].name)

SameSnapshot(c, d) ==
    c # d /\ csnap[c].name = csnap[d].name /\ csnap[c].snap = csnap[d].snap

CsnapRunning(c) == csnap[c].pc \notin {"idle", "done"}

CreateCustomVolumeSnapshotOf_Call(c, n, s) ==
    /\ csnap[c].pc = "idle"
    /\ csnap' = [csnap EXCEPT ![c] = [IdleCsnap EXCEPT !.pc = "VolumeDBGet",
                                                     !.name = n, !.snap = s]]
    /\ UNCHANGED <<db, disk, snapLocks, csnapRest>>

\* return err before the lock is taken and with nothing to revert.
CsnapRefuse(c) ==
    /\ csnap' = [csnap EXCEPT ![c] =
            [@ EXCEPT !.pc = "done", !.err = TRUE,
                      !.beside = \E d \in CsnapCallers : SameSnapshot(c, d) /\ CsnapRunning(d)]]
    /\ UNCHANGED <<db, disk, snapLocks>>

CreateCustomVolumeSnapshotOf_Step(c, fault) ==
    /\ LET s == csnap[c]
           k == Vol(VolumeTypeCustom, s.name, s.snap)
           parent == Vol(VolumeTypeCustom, s.name, NoSnap) IN
       CASE s.pc = "VolumeDBGet" ->
                \* the snapshot's record must not exist, the parent's record must
                IF fault \/ k \in db \/ parent \notin db
                THEN CsnapRefuse(c)
                ELSE /\ csnap' = [csnap EXCEPT ![c].pc = "VolumeDBCreate"]
                     /\ UNCHANGED <<db, disk, snapLocks>>
         [] s.pc = "VolumeDBCreate" ->
                IF fault \/ ~VolumeDBCreateOk(St, k)
                THEN CsnapRefuse(c)
                ELSE /\ db' = db \cup {k}
                     /\ csnap' = [csnap EXCEPT ![c] = [@ EXCEPT !.pc = "Lock", !.made = TRUE]]
                     /\ UNCHANGED <<disk, snapLocks>>
         [] s.pc = "Lock" ->
                /\ ~fault
                /\ LockFree(snapLocks[CsnapLock(c)])
                /\ snapLocks' = [snapLocks EXCEPT ![CsnapLock(c)] = c]
                /\ csnap' = [csnap EXCEPT ![c].pc = "CreateVolumeSnapshot"]
                /\ UNCHANGED <<db, disk>>
         [] s.pc = "CreateVolumeSnapshot" ->
                IF fault \/ ~DriverCreateVolumeOk(St, k)
                THEN \* return err: the deferred unlock, then the deferred revert.Fail()
                     /\ snapLocks' = [snapLocks EXCEPT ![CsnapLock(c)] = 0]
                     /\ csnap' = [csnap EXCEPT ![c] =
                            [@ EXCEPT !.pc = "revert", !.err = TRUE,
                                      !.beside = \E d \in CsnapCallers :
                                                    SameSnapshot(c, d) /\ CsnapRunning(d)]]
                     /\ UNCHANGED <<db, disk>>
                ELSE \* revert.Success(), return nil and the deferred unlock
                     /\ disk' = disk \cup {k}
                     /\ snapLocks' = [snapLocks EXCEPT ![CsnapLock(c)] = 0]
                     /\ csnap' = [csnap EXCEPT ![c].pc = "done"]
                     /\ UNCHANGED db
         [] s.pc = "revert" ->
                \* the compensating VolumeDBDelete of the snapshot's record
                /\ ~fault
                /\ db' = db \ {k}
                /\ csnap' = [csnap EXCEPT ![c].pc = "done"]
                /\ UNCHANGED <<disk, snapLocks>>
         [] OTHER -> FALSE
    /\ UNCHANGED csnapRest

\* The caller has the result.
CreateCustomVolumeSnapshotOf_Return(c) ==
    /\ csnap[c].pc = "done"
    /\ csnap' = [csnap EXCEPT ![c] = IdleCsnap]
    /\ UNCHANGED <<db, disk, snapLocks, csnapRest>>

InitCsnap == csnap = [c \in CsnapCallers |-> IdleCsnap]

InitCalls == snapRecCall = NoSnapRecCall /\ quotaCall = NoQuotaCall /\ InitCsnap

(***************************************************************************)
(* UpdateCustomVolume on one custom volume.                                *)
(***************************************************************************)
ContentTypes == {"filesystem", "block", "iso"}
\* Config keys of a custom volume ("volatile.uuid" is refused the way "block.filesystem"
\* is); a key that is not set has the value "".
ConfigKeys == {"size", "block.filesystem", "security.unmapped", "volatile.idmap.last", "user.note"}
\* The value a key has when it is set.
ConfigValue(key) ==
    CASE key = "security.unmapped" -> "true"
      [] key = "size" -> "1GiB"
      [] key = "block.filesystem" -> "ext4"
      [] OTHER -> "x"
VolConfigs == {[k \in ConfigKeys |-> IF k \in set THEN ConfigValue(k) ELSE ""] :
                    set \in SUBSET ConfigKeys}
Descriptions == {"", "d1"}

HasPrefixUser(key) == key = "user.note"

\* detectChangedConfig: the keys whose values differ, and whether all of them are user keys.
changedKeys(curConfig, newConfig) == {k \in ConfigKeys : curConfig[k] # newConfig[k]}
userOnly(curConfig, newConfig) == \A k \in changedKeys(curConfig, newConfig) : HasPrefixUser(k)

IsoRefused_Never(contentType, changed) == FALSE

\* "Custom ISO volume config cannot be changed"
IsoRefused(contentType, changed) == contentType = "iso" /\ changed # {}

\* "Unset idmap keys if volume is unmapped."
UnsetIdmap(newConfig) ==
    IF newConfig["security.unmapped"] = "true"
    THEN [newConfig EXCEPT !["volatile.idmap.last"] = ""]
    ELSE newConfig

\* changed: the call came with a config that differs from the volume's.
NoVolUpdate == [called |-> FALSE, err |-> FALSE, changed |-> FALSE]

EmptyConfig == [k \in ConfigKeys |-> ""]
NoCustomVol == [contentType |-> "", desc |-> "", config |-> EmptyConfig, driver |-> EmptyConfig]

\* CreateCustomVolume with a content type and a config: the record and the driver's volume.
CreateCustomVolume_Config(contentType, desc, config) ==
    /\ cvol = NoCustomVol
    /\ contentType \in {"filesystem", "block"}
    /\ cvol' = [contentType |-> contentType, desc |-> desc, config |-> config,
                driver |-> [k \in ConfigKeys |-> IF HasPrefixUser(k) THEN "" ELSE config[k]]]
    /\ UNCHANGED <<lastVolUpdate, cvolRest>>

\* CreateCustomVolumeFromISO: an iso volume with no description and the config
\* {"size": size}.
CreateCustomVolumeFromISO ==
    LET config == [EmptyConfig EXCEPT !["size"] = "1GiB"] IN
    /\ cvol = NoCustomVol
    /\ cvol' = [contentType |-> "iso", desc |-> "", config |-> config, driver |-> config]
    /\ UNCHANGED <<lastVolUpdate, cvolRest>>

\* UpdateCustomVolume(projectName, volName, newDesc, newConfig).  validateFails:
\* driver.ValidateVolume rejects the config; driverFails, dbFails: driver.UpdateVolume,
\* UpdateStoragePoolVolume fail if they are called.
UpdateCustomVolume(newDesc, newConfig, validateFails, driverFails, dbFails) ==
    LET changed == changedKeys(cvol.config, newConfig)
        refused == \/ validateFails
                   \/ IsoRefused(cvol.contentType, changed)
                   \/ (changed # {} /\ "block.filesystem" \in changed
                        /\ newConfig["block.filesystem"] # "")
        driverUpdate == ~refused /\ changed # {} /\ ~userOnly(cvol.config, newConfig)
        dbWrite == /\ ~refused
                   /\ ~(driverUpdate /\ driverFails)
                   /\ (changed # {} \/ newDesc # cvol.desc)
    IN  /\ cvol # NoCustomVol
        /\ driverFails => driverUpdate
        /\ dbFails => dbWrite
        /\ cvol' = [cvol EXCEPT
                        !.driver = IF driverUpdate /\ ~driverFails
                                   THEN [k \in ConfigKeys |->
                                            IF k \in changed /\ ~HasPrefixUser(k)
                                            THEN newConfig[k] ELSE @[k]]
                                   ELSE @,
                        !.config = IF dbWrite /\ ~dbFails THEN UnsetIdmap(newConfig) ELSE @,
                        !.desc = IF dbWrite /\ ~dbFails THEN newDesc ELSE @]
        /\ lastVolUpdate' = [called |-> TRUE,
                             err |-> refused \/ (driverUpdate /\ driverFails) \/ (dbWrite /\ dbFails),
                             changed |-> changed # {}]
        /\ UNCHANGED cvolRest

InitCustomVol ==
    /\ cvol = NoCustomVol
    /\ lastVolUpdate = NoVolUpdate

(***************************************************************************)
(* The recovery scan: ListUnknownVolumes over the instance volumes of a    *)
(* pool.                                                                   *)
(***************************************************************************)
ScanSnapNames == {"s1", "s2"}
\* The instance volumes the driver lists, in the order it lists them.
ScanVolumes == <<"c1", "c2">>

\* What the scan finds for one instance volume.  instRec, volRec: the records of the
\* instance and of its storage volume; instSnapshots, volSnapshots: the snapshot names
\* that have an instance record, a storage volume record; backupValid: backup.yaml parses
\* and names this pool, instance and volume type; backupSnapshots: the snapshots backup.yaml
\* lists; driverSnapshots: the snapshots on the storage device.
ScanInputs ==
    [instRec : BOOLEAN, volRec : BOOLEAN,
     instSnapshots : SUBSET ScanSnapNames, volSnapshots : SUBSET ScanSnapNames,
     backupValid : BOOLEAN, backupSnapshots : SUBSET ScanSnapNames,
     driverSnapshots : SUBSET ScanSnapNames]

\* An instance volume that has no records and no snapshots.
PlainVolume ==
    [instRec |-> FALSE, volRec |-> FALSE, instSnapshots |-> {}, volSnapshots |-> {},
     backupValid |-> TRUE, backupSnapshots |-> {}, driverSnapshots |-> {}]

\* CheckInstanceBackupFileSnapshots: the snapshots of the backup file and of the storage
\* device differ in number, or the driver finds a difference.
SnapshotsMismatch(v) ==
    \/ Cardinality(v.backupSnapshots) # Cardinality(v.driverSnapshots)
    \/ v.backupSnapshots # v.driverSnapshots

\* The instance and its volume both have their records: "no recovery needed".
Known(v) == v.instRec /\ v.volRec

\* detectUnknownInstanceVolume appends the volume to projectVols.
DetectAdds(v) == ~v.instRec /\ ~v.volRec /\ v.backupValid

\* detectUnknownInstanceVolume returns an error.
DetectFails(v) ==
    /\ ~Known(v)
    /\ \/ v.instRec
       \/ v.volRec
       \/ ~v.backupValid
       \/ SnapshotsMismatch(v)
       \/ \E s \in v.backupSnapshots : s \in v.instSnapshots \/ s \in v.volSnapshots

\* detectUnknownInstanceVolume for the volumes 1..n in turn, up to the first error.
RECURSIVE ProjectVols(_, _)
ProjectVols(vols, n) ==
    IF n = 0 THEN [vols |-> {}, err |-> FALSE]
    ELSE LET before == ProjectVols(vols, n - 1)
             name == ScanVolumes[n] IN
         IF before.err THEN before
         ELSE [vols |-> IF DetectAdds(vols[name]) THEN before.vols \cup {name} ELSE before.vols,
               err |-> DetectFails(vols[name])]

ScanResult_Partial(projectVols) == projectVols.vols

\* ListUnknownVolumes returns nil with the error of a volume, projectVols otherwise.
ScanResult(projectVols) == IF projectVols.err THEN {} ELSE projectVols.vols

NoScan == [called |-> FALSE, err |-> FALSE, result |-> {}]

ListUnknownVolumes ==
    LET projectVols == ProjectVols(scan.vols, Len(ScanVolumes)) IN
    /\ scan' = [scan EXCEPT !.called = TRUE, !.err = projectVols.err,
                            !.result = ScanResult(projectVols)]
    /\ UNCHANGED scanRest

InitScan ==
    scan = [vols |-> [c1 |-> PlainVolume, c2 |-> PlainVolume], called |-> FALSE,
            err |-> FALSE, result |-> {}]

(***************************************************************************)
(* ImportInstance and ImportCustomVolume: the records made from the        *)
(* descriptor of a recovered volume.                                       *)
(***************************************************************************)
\* A config is the set of its keys; the driver knows "size" only.
ImportKeys == {"size", "foreign.key"}
KnownKeys == {"size"}
ImportConfigs == SUBSET ImportKeys
\* The descriptor's snapshots: none, or one snapshot with its config.
ImportSnapshots == {<<>>} \cup {<<c>> : c \in ImportConfigs}

\* What VolumeDBCreate does with the config: it strips the keys the driver does not know
\* when removeUnknownKeys is true, then validates the config against the driver and
\* writes the record.
VolumeDBCreateConfig(config, removeUnknownKeys) ==
    LET final == IF removeUnknownKeys THEN config \cap KnownKeys ELSE config IN
    [err |-> ~(final \subseteq KnownKeys), config |-> final]

\* The removeUnknownKeys argument of the VolumeDBCreate calls of the imports.
ImportRemovesUnknownKeys == FALSE

NoRecord == [exists |-> FALSE, config |-> {}]
Record(config) == [exists |-> TRUE, config |-> config]

NoImport ==
    [kind |-> "none", config |-> {}, snapshots |-> <<>>, err |-> FALSE, faulted |-> FALSE,
     volume |-> NoRecord, snapshot |-> NoRecord]

\* The records of the volume and of its snapshot as the loop over snapConfigs makes
\* them, up to the first error; mountFails: EnsureMountPath fails.  On an error
\* revert.Fail() deletes the records made.
Imported(kind, config, snapshots, snapConfigs, mountFails) ==
    LET vol == VolumeDBCreateConfig(config, ImportRemovesUnknownKeys)
        snap == IF snapConfigs = <<>> THEN [err |-> FALSE, config |-> {}]
                ELSE VolumeDBCreateConfig(snapConfigs[1], ImportRemovesUnknownKeys)
        err == vol.err \/ snap.err \/ mountFails
    IN  [kind |-> kind, config |-> config, snapshots |-> snapshots, err |-> err,
         faulted |-> mountFails,
         volume |-> IF err THEN NoRecord ELSE Record(vol.config),
         snapshot |-> IF err \/ snapConfigs = <<>> THEN NoRecord ELSE Record(snap.config)]

\* ImportCustomVolume(projectName, poolVol): records from poolVol.Volume.Config and
\* poolVol.VolumeSnapshots.
ImportCustomVolume(config, snapshots, mountFails) ==
    /\ lastImport' = Imported("ImportCustomVolume", config, snapshots, snapshots, mountFails)
    /\ UNCHANGED importRest

\* ImportInstance(inst, poolVol): the snapshot records come from poolVol.VolumeSnapshots
\* if the instance has snapshots and the descriptor lists some, else from the snapshots
\* of the instance, with the config of the parent volume.
ImportInstance(config, snapshots, instSnapshots, mountFails) ==
    LET snapConfigs == IF instSnapshots /\ snapshots # <<>> THEN snapshots
                       ELSE IF instSnapshots THEN <<config>>
                       ELSE <<>>
    IN  /\ lastImport' = Imported("ImportInstance", config, snapshots, snapConfigs, mountFails)
        /\ UNCHANGED importRest

InitImport == lastImport = NoImport

(***************************************************************************)
(* CreateInstanceFromCopy, RefreshInstance and MigrateInstance as their    *)
(* caller sees them: the freeze of the source instance, the copy of the    *)
(* volume's data in chunks, the compensating actions and the error that is *)
(* returned.  A transfer between pools runs the sender MigrateInstance     *)
(* inside the call; the receiver's failures are failures of the transfer.  *)
(***************************************************************************)
CopyKinds == {"CreateInstanceFromCopy", "RefreshInstance", "MigrateInstance"}
\* The source's snapshots that are copied, in the order of the backup config.
CopySnapNames == <<"s1", "s2">>

\* The source instance: a snapshot is not running, a frozen instance is running.
SourceStates ==
    {i \in [snapshot : BOOLEAN, running : BOOLEAN, frozen : BOOLEAN] :
        /\ i.snapshot => ~i.running
        /\ i.frozen => i.running}

FreezeNeeded_Never(src, runningCopyFreeze, allowInconsistent) == FALSE

\* Some driver backing stores require that running instances be frozen during copy.
FreezeNeeded(src, runningCopyFreeze, allowInconsistent) ==
    ~src.snapshot /\ runningCopyFreeze /\ src.running /\ ~src.frozen /\ ~allowInconsistent

\* The sender's runningCopyFreeze: the driver's, or a raw copy of the active volume.
SenderCopyFreeze(copyFreeze, blockRsync) == copyFreeze \/ blockRsync

NoTarget == [rec |-> FALSE, snapRecs |-> {}, vol |-> FALSE]
IdleCopy ==
    [kind |-> "idle", pc |-> "idle", samePool |-> TRUE, src |-> [snapshot |-> FALSE,
     running |-> FALSE, frozen |-> FALSE], src0 |-> [snapshot |-> FALSE, running |-> FALSE,
     frozen |-> FALSE], copyFreeze |-> FALSE, blockRsync |-> FALSE, allowInconsistent |-> FALSE,
     nsnaps |-> 0, todo |-> <<>>, froze |-> FALSE, sFroze |-> FALSE, copied |-> 0,
     tgt |-> NoTarget, hooks |-> <<>>, ran |-> <<>>, registered |-> <<>>, err |-> ""]

CopyHook(h, s) == [h |-> h, s |-> s]

\* The call is made.  RefreshInstance is called on an instance that exists.
InstanceCopy_Call(kind, samePool, src, copyFreeze, blockRsync, allowInconsistent, nsnaps) ==
    /\ cp.kind = "idle"
    /\ cp' = [IdleCopy EXCEPT
                !.kind = kind, !.samePool = samePool, !.src = src, !.src0 = src,
                !.copyFreeze = copyFreeze, !.blockRsync = blockRsync,
                !.allowInconsistent = allowInconsistent, !.nsnaps = nsnaps,
                !.todo = SubSeq(CopySnapNames, 1, nsnaps),
                !.tgt = IF kind = "RefreshInstance"
                        THEN [rec |-> TRUE, snapRecs |-> {}, vol |-> TRUE] ELSE NoTarget,
                !.pc = IF kind = "MigrateInstance" THEN "migrationIndexHeaderSend"
                       ELSE "HasVolume"]
    /\ UNCHANGED copyCallRest

\* return err: the deferred Unfreeze calls run first (they were deferred last), then the
\* deferred revert.Fail.
InstanceCopyFail(c, step) ==
    [c EXCEPT !.err = step, !.registered = c.hooks,
              !.src.frozen = IF c.froze \/ c.sFroze THEN FALSE ELSE @,
              !.froze = FALSE, !.sFroze = FALSE,
              !.pc = IF c.hooks = <<>> THEN "returned" ELSE "revert"]

\* revert.Success() and return nil, and the deferred Unfreeze.
InstanceCopySucceed(c) ==
    [c EXCEPT !.pc = "returned", !.hooks = <<>>,
              !.src.frozen = IF c.froze \/ c.sFroze THEN FALSE ELSE @,
              !.froze = FALSE, !.sFroze = FALSE]

\* MigrateInstance has returned to the copy or refresh that called it: its deferred
\* Unfreeze has run.
SenderReturned(c) ==
    [c EXCEPT !.src.frozen = IF c.sFroze THEN FALSE ELSE @, !.sFroze = FALSE]

\* A compensating action of the copy; its error, if any, is dropped by the closure.
CopyHookEffect(tgt, hk, fails) ==
    IF fails THEN tgt
    ELSE CASE hk.h = "DeleteInstance" ->
                IF tgt.snapRecs # {} THEN tgt ELSE NoTarget
           [] hk.h = "VolumeDBDelete" ->
                IF hk.s = "" THEN [tgt EXCEPT !.rec = FALSE]
                ELSE [tgt EXCEPT !.snapRecs = @ \ {hk.s}]
           [] OTHER -> tgt

\* The compensating actions revert.Fail has yet to run after the last registered of
\* hooks has run: the others, whether or not that one failed.
RevertRest_StopOnFailure(hooks, failed) ==
    IF failed THEN <<>> ELSE SubSeq(hooks, 1, Len(hooks) - 1)
RevertRest(hooks, failed) == SubSeq(hooks, 1, Len(hooks) - 1)

\* revert.Fail: the compensating actions run last registered first; none of them
\* returns anything to the reverter.
InstanceCopy_Revert(fails) ==
    /\ cp.pc = "revert"
    /\ LET n == Len(cp.hooks)
           rest == RevertRest(cp.hooks, fails) IN
       cp' = [cp EXCEPT !.tgt = CopyHookEffect(@, cp.hooks[n], fails),
                        !.ran = Append(@, [hook |-> cp.hooks[n], failed |-> fails]),
                        !.hooks = rest,
                        !.pc = IF rest = <<>> THEN "returned" ELSE "revert"]
    /\ UNCHANGED copyCallRest

InstanceCopy_Step(fault) ==
    /\ cp.kind \in CopyKinds
    /\ LET pc == cp.pc
           outer == FreezeNeeded(cp.src, cp.copyFreeze, cp.allowInconsistent)
           sender == FreezeNeeded(cp.src, SenderCopyFreeze(cp.copyFreeze, cp.blockRsync),
                                  cp.allowInconsistent)
           push(c, h, s) == [c EXCEPT !.hooks = Append(@, CopyHook(h, s))]
           goto(c, to) == [c EXCEPT !.pc = to]
       IN
       CASE pc = "HasVolume" ->
                \* the checks before the reverter is set up
                cp' = IF fault THEN InstanceCopyFail(cp, pc) ELSE goto(cp, "Freeze")
         [] pc = "Freeze" ->
                IF outer /\ fault
                THEN cp' = InstanceCopyFail(cp, pc)
                ELSE LET c1 == IF outer THEN [cp EXCEPT !.src.frozen = TRUE, !.froze = TRUE]
                                        ELSE cp
                         c2 == IF cp.kind = "CreateInstanceFromCopy"
                               THEN push(c1, "DeleteInstance", "") ELSE c1
                     IN /\ ~outer => ~fault
                        /\ cp' = goto(c2, CASE ~cp.samePool -> "migrationIndexHeaderSend"
                                            [] cp.kind = "CreateInstanceFromCopy" -> "VolumeDBCreate"
                                            [] cp.todo # <<>> -> "SnapshotRecords"
                                            [] OTHER -> "CopyVolume")
         [] pc = "VolumeDBCreate" ->
                IF fault
                THEN cp' = InstanceCopyFail(cp, pc)
                ELSE cp' = goto(push([cp EXCEPT !.tgt.rec = TRUE], "VolumeDBDelete", ""),
                                IF cp.todo # <<>> THEN "SnapshotRecords" ELSE "CopyVolume")
         [] pc = "SnapshotRecords" ->
                IF fault
                THEN cp' = InstanceCopyFail(cp, pc)
                ELSE LET s == Head(cp.todo) IN
                     cp' = goto(push([cp EXCEPT !.tgt.snapRecs = @ \cup {s}, !.todo = Tail(@)],
                                     "VolumeDBDelete", s),
                                IF Tail(cp.todo) # <<>> THEN "SnapshotRecords" ELSE "CopyVolume")
         [] pc = "CopyVolume" ->
                \* driver.CreateVolumeFromCopy or driver.RefreshVolume, a chunk at a time
                IF fault
                THEN cp' = InstanceCopyFail(cp, pc)
                ELSE cp' = [cp EXCEPT !.copied = @ + 1, !.tgt.vol = TRUE,
                                      !.pc = IF cp.copied + 1 = NumChunks
                                             THEN "ensureInstanceSymlink" ELSE pc]
         [] pc = "migrationIndexHeaderSend" ->
                \* the sender's checks and its index header; no volume data yet
                cp' = IF fault THEN InstanceCopyFail(cp, pc) ELSE goto(cp, "SenderFreeze")
         [] pc = "SenderFreeze" ->
                IF sender /\ fault
                THEN cp' = InstanceCopyFail(cp, pc)
                ELSE /\ ~sender => ~fault
                     /\ cp' = goto(IF sender THEN [cp EXCEPT !.src.frozen = TRUE, !.sFroze = TRUE]
                                              ELSE cp, "MigrateVolume")
         [] pc = "MigrateVolume" ->
                IF fault
                THEN cp' = InstanceCopyFail(cp, pc)
                ELSE IF cp.copied + 1 < NumChunks
                THEN cp' = [cp EXCEPT !.copied = @ + 1]
                ELSE IF cp.kind = "MigrateInstance"
                THEN cp' = InstanceCopySucceed([cp EXCEPT !.copied = @ + 1])
                ELSE cp' = goto(SenderReturned([cp EXCEPT !.copied = @ + 1, !.tgt.rec = TRUE,
                                                          !.tgt.vol = TRUE]),
                                "ensureInstanceSymlink")
         [] pc = "ensureInstanceSymlink" ->
                cp' = IF fault THEN InstanceCopyFail(cp, pc) ELSE InstanceCopySucceed(cp)
         [] OTHER -> FALSE
    /\ UNCHANGED copyCallRest

\* The caller has the result.
InstanceCopy_Return ==
    /\ cp.pc = "returned"
    /\ cp' = IdleCopy
    /\ UNCHANGED copyCallRest

InitCopyCall == cp = IdleCopy

NextCopyCall ==
    \/ \E kind \in CopyKinds, samePool \in BOOLEAN, src \in SourceStates,
          copyFreeze \in BOOLEAN, blockRsync \in BOOLEAN, allowInconsistent \in BOOLEAN,
          nsnaps \in 0..Len(CopySnapNames) :
            /\ kind = "MigrateInstance" => ~samePool /\ nsnaps = 0
            /\ blockRsync => ~samePool
            /\ InstanceCopy_Call(kind, samePool, src, copyFreeze, blockRsync, allowInconsistent, nsnaps)
    \/ \E fault \in BOOLEAN : InstanceCopy_Step(fault)
    \/ \E fails \in BOOLEAN : InstanceCopy_Revert(fails)
    \/ InstanceCopy_Return


(***************************************************************************)
(* Transfers: a sender task (MigrateInstance, MigrateCustomVolume) and a   *)
(* receiver task (CreateInstanceFromMigration,                             *)
(* CreateCustomVolumeFromMigration) joined by a connection.  In a          *)
(* cross-pool copy or refresh both run in one backend call that waits for  *)
(* them, over a pipe pair bound to a cancellation context; in a migration  *)
(* they run on two servers.                                                *)
(***************************************************************************)
IdleXfer ==
    [mode |-> "idle", kind |-> "", refresh |-> FALSE, tgt0 |-> FALSE, db0 |-> FALSE,
     tgtDb |-> FALSE, tgtDisk |-> FALSE, hooks |-> <<>>,
     sPc |-> "done", rPc |-> "done", pPc |-> "idle", sErr |-> "", rErr |-> "",
     sRefresh |-> FALSE, rRefresh |-> FALSE, replied |-> "none",
     a2b |-> <<>>, b2a |-> <<>>, closed |-> FALSE, sent |-> 0, got |-> 0,
     chA |-> "", chB |-> "", gErr |-> "", ret |-> {},
     snapshots |-> FALSE, finalSync |-> FALSE, hdrSent |-> FALSE]

\* The context is done, which closes both ends of the pipe pair.
PipeClosed(x) == x.closed
\* A write returns when the peer can take the frame or the pipe is closed; a read returns
\* when a frame is there or the pipe is closed.
CanWrite(x, q) == Len(q) < PipeCap \/ PipeClosed(x)
CanRead(x, q) == q # <<>> \/ PipeClosed(x)

CancelOnError_Never(err, closed) == closed

\* if err != nil { cancel() }
CancelOnError(err, closed) == err \/ closed

ReceiverRefresh_Keep(refresh, volExists) == refresh

Inconsistent_OnlyDB(dbVol, volExists) == dbVol /\ ~volExists

\* "Volume already exists on storage but not in database", "Volume exists in database but
\* not on storage"
Inconsistent(dbVol, volExists) == (~dbVol /\ volExists) \/ (dbVol /\ ~volExists)

\* CreateCustomVolumeFromMigration: refresh mode is disabled if the volume doesn't exist.
ReceiverRefresh(refresh, volExists) == IF refresh /\ ~volExists THEN FALSE ELSE refresh

\* CreateInstanceFromCopy, RefreshInstance (kind "instance") and CreateCustomVolumeFromCopy,
\* RefreshCustomVolume (kind "custom") between two pools.
Copy_Call(kind, refresh) ==
    /\ xfer.mode = "idle"
    /\ xfer' = [IdleXfer EXCEPT !.mode = "copy", !.kind = kind, !.refresh = refresh,
                                !.tgt0 = refresh, !.db0 = refresh,
                                !.tgtDb = refresh, !.tgtDisk = refresh,
                                !.rRefresh = refresh, !.sRefresh = (refresh /\ kind = "instance"),
                                !.sPc = "checks",
                                !.rPc = IF kind = "instance" THEN "recvHeader" ELSE "checks",
                                !.pPc = IF kind = "instance" THEN "Wait" ELSE "waitA"]
    /\ UNCHANGED xferRest

\* A migration: the receiver is called with args.Refresh = refresh on a server where the
\* target volume has a record or not (dbVol) and exists on storage or not (volExists); the
\* sender is called with a list of snapshots or none, and with args.FinalSync or without.
Migration_Call(kind, refresh, dbVol, volExists, snapshots, finalSync) ==
    /\ xfer.mode = "idle"
    /\ xfer' = [IdleXfer EXCEPT !.mode = "migration", !.kind = kind, !.refresh = refresh,
                                !.tgt0 = volExists, !.db0 = dbVol,
                                !.tgtDb = dbVol, !.tgtDisk = volExists,
                                !.snapshots = snapshots, !.finalSync = finalSync,
                                !.rRefresh = refresh, !.sRefresh = refresh, !.sPc = "checks",
                                !.rPc = IF kind = "instance" THEN "recvHeader" ELSE "checks"]
    /\ UNCHANGED xferRest

SenderFail(x) == [x EXCEPT !.sErr = "err", !.sPc = "exit"]

\* MigrateInstance: "Snapshots should not be transferred during final sync";
\* MigrateCustomVolume has no such check.
FinalSyncRefused(kind, snapshots, finalSync) == kind = "instance" /\ snapshots /\ finalSync

Sender_Step ==
    /\ xfer.sPc # "done"
    /\ LET x == xfer IN
       CASE x.sPc = "checks" ->
                \E fail \in BOOLEAN :
                    xfer' = IF fail \/ FinalSyncRefused(x.kind, x.snapshots, x.finalSync)
                            THEN SenderFail(x)
                            ELSE [x EXCEPT !.sPc = "sendHeader"]
         [] x.sPc = "sendHeader" ->
                /\ CanWrite(x, x.a2b)
                /\ xfer' = IF PipeClosed(x) THEN SenderFail(x)
                           ELSE [x EXCEPT !.a2b = Append(@, "header"), !.hdrSent = TRUE,
                                          !.sPc = "waitResp"]
         [] x.sPc = "waitResp" ->
                /\ CanRead(x, x.b2a)
                /\ xfer' = IF PipeClosed(x) THEN SenderFail(x)
                           ELSE [x EXCEPT !.sRefresh = Head(x.b2a).Refresh, !.b2a = Tail(@),
                                          !.sPc = "MigrateVolume"]
         [] x.sPc = "MigrateVolume" ->
                IF x.sent = NumChunks
                THEN xfer' = [x EXCEPT !.sErr = "nil", !.sPc = "exit"]
                ELSE \E fail \in BOOLEAN :
                        IF fail THEN xfer' = SenderFail(x)
                        ELSE /\ CanWrite(x, x.a2b)
                             /\ xfer' = IF PipeClosed(x) THEN SenderFail(x)
                                        ELSE [x EXCEPT !.a2b = Append(@, "data"),
                                                       !.sent = @ + 1]
         [] x.sPc = "exit" ->
                LET err == x.sErr = "err" IN
                xfer' = CASE x.mode = "copy" /\ x.kind = "custom" ->
                                [x EXCEPT !.closed = CancelOnError(err, @), !.chA = x.sErr,
                                          !.sPc = "done"]
                          [] x.mode = "copy" /\ x.kind = "instance" ->
                                \* errgroup: the first error is kept and cancels the context
                                [x EXCEPT !.closed = err \/ @,
                                          !.gErr = IF err /\ @ = "" THEN "sender" ELSE @,
                                          !.sPc = "done"]
                          [] OTHER -> [x EXCEPT !.sPc = "done"]
         [] OTHER -> FALSE
    /\ UNCHANGED xferRest

\* The receiver's revert.Fail(): the hooks registered so far, last one first.
ReceiverFail(x) ==
    [x EXCEPT !.rErr = "err", !.rPc = "exit", !.hooks = <<>>,
              !.tgtDisk = IF \E i \in 1..Len(x.hooks) : x.hooks[i] = "DeleteInstance"
                          THEN FALSE ELSE @,
              !.tgtDb = IF x.hooks # <<>> THEN FALSE ELSE @]

Receiver_Step ==
    /\ xfer.rPc # "done"
    /\ LET x == xfer
           inst == x.kind = "instance"
           volExists == x.tgtDisk IN
       CASE x.rPc = "recvHeader" ->
                \* migrationIndexHeaderReceive: read the header, reply with Refresh
                /\ CanRead(x, x.a2b)
                /\ xfer' = IF PipeClosed(x) THEN ReceiverFail(x)
                           ELSE [x EXCEPT !.a2b = Tail(@),
                                          !.b2a = Append(@, [Refresh |-> x.rRefresh]),
                                          !.replied = IF x.rRefresh THEN "true" ELSE "false",
                                          !.rPc = IF inst THEN "checks" ELSE "create"]
         [] x.rPc = "checks" ->
                \E fail \in BOOLEAN :
                    xfer' =
                        IF fail \/ Inconsistent(x.tgtDb, volExists)
                        THEN ReceiverFail(x)
                        ELSE IF inst
                        THEN IF x.rRefresh /\ ~volExists
                             THEN ReceiverFail(x)
                             ELSE [x EXCEPT !.rPc = "create"]
                        ELSE IF ~x.rRefresh /\ volExists
                             THEN ReceiverFail(x)
                             ELSE [x EXCEPT !.rRefresh = ReceiverRefresh(@, volExists),
                                            !.rPc = "recvHeader"]
         [] x.rPc = "create" ->
                \E fail \in BOOLEAN :
                    xfer' =
                        IF x.rRefresh
                        THEN IF fail THEN ReceiverFail(x) ELSE [x EXCEPT !.rPc = "recvData"]
                        ELSE IF fail \/ volExists \/ x.tgtDb
                        THEN ReceiverFail(x)
                        ELSE [x EXCEPT !.tgtDb = TRUE, !.hooks = Append(@, "VolumeDBDelete"),
                                       !.rPc = "recvData"]
         [] x.rPc = "recvData" ->
                \* driver.CreateVolumeFromMigration
                IF x.got = NumChunks
                THEN xfer' = IF inst
                             THEN [x EXCEPT !.tgtDisk = TRUE, !.rPc = "ensureInstanceSymlink",
                                            !.hooks = Append(@, "DeleteInstance")]
                             ELSE [x EXCEPT !.tgtDisk = TRUE, !.rErr = "nil", !.rPc = "exit",
                                            !.hooks = <<>>]
                ELSE \E fail \in BOOLEAN :
                        IF fail THEN xfer' = ReceiverFail(x)
                        ELSE /\ CanRead(x, x.a2b)
                             /\ xfer' = IF PipeClosed(x) THEN ReceiverFail(x)
                                        ELSE [x EXCEPT !.a2b = Tail(@), !.got = @ + 1]
         [] x.rPc = "ensureInstanceSymlink" ->
                \E fail \in BOOLEAN :
                    xfer' = IF fail THEN ReceiverFail(x)
                            ELSE [x EXCEPT !.rErr = "nil", !.rPc = "exit", !.hooks = <<>>]
         [] x.rPc = "exit" ->
                LET err == x.rErr = "err" IN
                xfer' = CASE x.mode = "copy" /\ x.kind = "custom" ->
                                [x EXCEPT !.closed = CancelOnError(err, @), !.chB = x.rErr,
                                          !.rPc = "done"]
                          [] x.mode = "copy" /\ x.kind = "instance" ->
                                [x EXCEPT !.closed = err \/ @,
                                          !.gErr = IF err /\ @ = "" THEN "receiver" ELSE @,
                                          !.rPc = "done"]
                          [] OTHER -> [x EXCEPT !.rPc = "done"]
         [] OTHER -> FALSE
    /\ UNCHANGED xferRest

\* The backend call that started both tasks collects their results.
Parent_Step ==
    /\ xfer.mode = "copy"
    /\ LET x == xfer IN
       CASE x.pPc = "waitA" ->
                \* aEndErr := <-aEndErrCh (aEnd.Close() finds the pipe closed already)
                /\ x.chA # ""
                /\ xfer' = [x EXCEPT !.ret = IF x.chA = "err" THEN {"sender"} ELSE {},
                                     !.pPc = "waitB"]
         [] x.pPc = "waitB" ->
                \* bEndErr := <-bEndErrCh; cancel(); the errors are returned together
                /\ x.chB # ""
                /\ xfer' = [x EXCEPT !.ret = IF x.chB = "err" THEN @ \cup {"receiver"} ELSE @,
                                     !.closed = TRUE, !.pPc = "returned"]
         [] x.pPc = "Wait" ->
                \* err = g.Wait(): the first error of the group; the deferred cancel()
                /\ x.sPc = "done" /\ x.rPc = "done"
                /\ xfer' = [x EXCEPT !.ret = IF x.gErr = "" THEN {} ELSE {x.gErr},
                                     !.closed = TRUE, !.pPc = "returned"]
         [] OTHER -> FALSE
    /\ UNCHANGED xferRest

\* The call has returned (a copy) or both sides have (a migration).
Xfer_Return ==
    /\ \/ xfer.mode = "copy" /\ xfer.pPc = "returned"
       \/ xfer.mode = "migration" /\ xfer.sPc = "done" /\ xfer.rPc = "done"
    /\ xfer' = IdleXfer
    /\ UNCHANGED xferRest

InitXfer == xfer = IdleXfer

(***************************************************************************)
(* Specification of the volume operations.                                 *)
(***************************************************************************)
\* No volume and no call in flight.
InitVolEmpty ==
    /\ db = {}
    /\ disk = {}
    /\ symlinks = {}
    /\ snapSymlinks = {}
    /\ op = Idle
    /\ faults = 0
    /\ dbConfig = [k \in AllVols |-> "a"]

InitVol == InitVolEmpty /\ loopVarShared \in BOOLEAN

Init == InitVol /\ InitPool /\ InitImage /\ InitXfer /\ InitReady /\ InitUpdate /\ InitRefresh /\ InitSnap /\ InitCustomVol /\ InitScan /\ InitImport /\ InitCopyCall /\ InitCreate /\ InitCalls

\* Calls on instance volumes.
NextVol ==
    \/ \E n \in Instances : CreateInstance_Call(n)
    \/ CreateInstance_Step
    \/ \E n \in Instances : DeleteInstance_Call(n)
    \/ DeleteInstance_Step
    \/ \E n, new \in Instances : RenameInstance_Call(n, new)
    \/ RenameInstance_Step
    \/ \E n \in Instances, s \in NewSnapNames : CreateInstanceSnapshot_Call(n, s)
    \/ CreateInstanceSnapshot_Step
    \/ \E n \in Instances, s \in NewSnapNames : DeleteInstanceSnapshot_Call(n, s)
    \/ DeleteInstanceSnapshot_Step
    \/ RevertStep
    \/ Return

SpecVol == Init /\ [][NextVol]_vars

\* The instance calls on a build whose range loops have one variable per iteration
\* (the toolchain named by the repository is Go 1.23).
InitRename ==
    /\ InitVolEmpty /\ loopVarShared = FALSE
    /\ InitPool /\ InitImage /\ InitXfer /\ InitReady /\ InitUpdate /\ InitRefresh
    /\ InitSnap /\ InitCustomVol /\ InitScan /\ InitImport /\ InitCopyCall /\ InitCreate /\ InitCalls
SpecRename == InitRename /\ [][NextVol]_vars

\* Instances are created, receive snapshots and are refreshed by a migration.
NextMigrate ==
    \/ \E n \in Instances : CreateInstance_Call(n)
    \/ CreateInstance_Step
    \/ \E n \in Instances, refresh \in BOOLEAN, snapshots \in ReceivedSnapshots :
            CreateInstanceFromMigration_Call(n, refresh, snapshots)
    \/ CreateInstanceFromMigration_Step
    \/ RevertStep
    \/ Return

SpecMigrate == InitRename /\ [][NextMigrate]_vars

\* Instances are created from an image and deleted.
NextFromImage ==
    \/ \E n \in Instances : CreateInstanceFromImageVolume_Call(n)
    \/ CreateInstanceFromImageVolume_Step
    \/ \E n \in Instances : DeleteInstance_Call(n)
    \/ DeleteInstance_Step
    \/ RevertStep
    \/ Return

SpecFromImage == InitRename /\ [][NextFromImage]_vars

\* Calls on custom volumes.
NextCustom ==
    \/ \E n \in CustomVols : CreateCustomVolume_Call(n)
    \/ CreateCustomVolume_Step
    \/ \E n \in CustomVols, s \in NewSnapNames : CreateCustomVolumeSnapshot_Call(n, s)
    \/ CreateCustomVolumeSnapshot_Step
    \/ \E n \in CustomVols, s \in NewSnapNames : DeleteCustomVolumeSnapshot_Call(n, s)
    \/ DeleteCustomVolumeSnapshot_Step
    \/ \E n \in CustomVols : DeleteCustomVolume_Call(n)
    \/ DeleteCustomVolume_Step
    \/ \E n, new \in CustomVols : RenameCustomVolume_Call(n, new)
    \/ RenameCustomVolume_Step
    \/ RevertStep
    \/ Return

SpecCustom == Init /\ [][NextCustom]_vars

\* Creation and deletion of the volumes of one instance and one custom volume.
NextDelete ==
    \/ CreateInstance_Call("c1")
    \/ CreateInstance_Step
    \/ DeleteInstance_Call("c1")
    \/ DeleteInstance_Step
    \/ \E s \in NewSnapNames : CreateInstanceSnapshot_Call("c1", s)
    \/ CreateInstanceSnapshot_Step
    \/ \E s \in NewSnapNames : DeleteInstanceSnapshot_Call("c1", s)
    \/ DeleteInstanceSnapshot_Step
    \/ CreateCustomVolume_Call("v1")
    \/ CreateCustomVolume_Step
    \/ \E s \in NewSnapNames : CreateCustomVolumeSnapshot_Call("v1", s)
    \/ CreateCustomVolumeSnapshot_Step
    \/ \E s \in NewSnapNames : DeleteCustomVolumeSnapshot_Call("v1", s)
    \/ DeleteCustomVolumeSnapshot_Step
    \/ DeleteCustomVolume_Call("v1")
    \/ DeleteCustomVolume_Step
    \/ RevertStep
    \/ Return

SpecDelete == Init /\ [][NextDelete]_vars

\* Restores of an instance and of a custom volume that have all the snapshots.
InitRestore ==
    /\ db = {k \in AllVols : k.name \in {"c1", "v1"}}
    /\ disk = db
    /\ symlinks = {"c1"}
    /\ snapSymlinks = {"c1"}
    /\ op = Idle
    /\ faults = 0
    /\ loopVarShared = FALSE
    /\ \E c \in Configs :
        dbConfig = [k \in AllVols |-> IF IsSnapshot(k) THEN "a" ELSE c]
    /\ InitPool
    /\ InitImage
    /\ InitXfer
    /\ InitReady
    /\ InitUpdate
    /\ InitRefresh /\ InitSnap /\ InitCustomVol /\ InitScan /\ InitImport /\ InitCopyCall /\ InitCreate /\ InitCalls

NextRestore ==
    \/ \E s \in SnapNames : RestoreInstanceSnapshot_Call("c1", s)
    \/ RestoreInstanceSnapshot_Step
    \/ \E s \in SnapNames : RestoreCustomVolume_Call("v1", s)
    \/ RestoreCustomVolume_Step
    \/ RevertStep
    \/ Return

SpecRestore == InitRestore /\ [][NextRestore]_vars

\* Concurrent EnsureImage calls on the pool ImgPool, whose settings do not change.  The
\* image volume is absent, left over without a record, or was made under earlier settings.
InitImageAny ==
    /\ InitVolEmpty
    /\ loopVarShared = FALSE
    /\ InitPool
    /\ poolDefault \in PoolDefaults
    /\ \/ imgRec = ImgNone /\ imgDisk \in {DiskNone, NewImageVolume(poolDefault)}
       \/ \E d \in PoolDefaults : ImageCreatedUnder(d)
    /\ locks = [n \in ImageLockNames |-> 0]
    /\ proc = [p \in Procs |-> IdleProc]
    /\ unpacks = 0
    /\ ensured = 0
    /\ InitXfer
    /\ InitReady
    /\ InitUpdate
    /\ InitRefresh /\ InitSnap /\ InitCustomVol /\ InitScan /\ InitImport /\ InitCopyCall /\ InitCreate /\ InitCalls

NextImage ==
    \/ \E p \in Procs : EnsureImage_Call(p, ImgPool)
    \/ \E p \in Procs : EnsureImage_Step(p, FALSE)
    \/ \E p \in Procs : DeleteImage_Step(p, FALSE)
    \/ \E p \in Procs : ImageReturn(p)

SpecImage == InitImageAny /\ [][NextImage]_vars

\* One caller of EnsureImage at a time, steps that may fail, and every starting
\* combination of the image's record and its on-disk volume: each absent, or as an
\* earlier call under some pool settings made it (the volume possibly not filled).
EnsureCallers == {1}

InitEnsureAny ==
    /\ InitVolEmpty
    /\ loopVarShared = FALSE
    /\ InitPool
    /\ poolDefault \in PoolDefaults
    /\ imgRec \in {ImgNone} \cup {[FillVolumeConfig(d) EXCEPT !.size = FillerSize(d)] : d \in PoolDefaults}
    /\ imgDisk \in {DiskNone} \cup {NewImageVolume(d) : d \in PoolDefaults}
                         \cup {[NewImageVolume(d) EXCEPT !.full = TRUE] : d \in PoolDefaults}
    /\ locks = [n \in ImageLockNames |-> 0]
    /\ proc = [p \in Procs |-> IdleProc]
    /\ unpacks = 0
    /\ ensured = 0
    /\ InitXfer
    /\ InitReady
    /\ InitUpdate
    /\ InitRefresh /\ InitSnap /\ InitCustomVol /\ InitScan /\ InitImport /\ InitCopyCall /\ InitCreate /\ InitCalls

NextEnsure ==
    \/ \E p \in EnsureCallers : EnsureImage_Call(p, ImgPool)
    \/ \E p \in EnsureCallers, fault \in BOOLEAN : EnsureImage_Step(p, fault)
    \/ \E p \in EnsureCallers, fault \in BOOLEAN : DeleteImage_Step(p, fault)
    \/ \E p \in EnsureCallers : ImageReturn(p)

SpecEnsure == InitEnsureAny /\ [][NextEnsure]_vars

\* EnsureImage calls on every pool, with and without optimized images, pending or
\* created, available or marked unavailable by a failed mount.
InitEnsurePools ==
    /\ InitVolEmpty
    /\ loopVarShared = FALSE
    /\ InitPool
    /\ poolDefault \in {d \in PoolDefaults : d.size = 0}
    /\ imgRec = ImgNone
    /\ imgDisk = DiskNone
    /\ locks = [n \in ImageLockNames |-> 0]
    /\ proc = [p \in Procs |-> IdleProc]
    /\ unpacks = 0
    /\ ensured = 0
    /\ InitXfer
    /\ poolStatus \in [Pools -> PoolStatuses]
    /\ nodeState = [p \in Pools |-> "Created"]
    /\ lastVolCall = NoVolCall
    /\ InitUpdate
    /\ InitRefresh /\ InitSnap /\ InitCustomVol /\ InitScan /\ InitImport /\ InitCopyCall /\ InitCreate /\ InitCalls

NextEnsurePools ==
    \/ \E p \in EnsureCallers, pool \in Pools : EnsureImage_Call(p, pool)
    \/ \E p \in EnsureCallers : EnsureImage_Step(p, FALSE)
    \/ \E p \in EnsureCallers : ImageReturn(p)
    \/ \E p \in Pools, failAt \in {"", "driver.Mount"} :
            /\ \A c \in EnsureCallers : proc[c].pc = "idle"
            /\ Mount(p, failAt, FALSE)

SpecEnsurePools == InitEnsurePools /\ [][NextEnsurePools]_vars

\* Concurrent EnsureImage, DeleteImage and CreateInstanceFromImage calls on the pool
\* ImgPool, one caller for each operation.  CreateInstanceFromImage calls EnsureImage and
\* EnsureImage calls DeleteImage, so that each operation also runs concurrently with itself.
LockCallers == {1, 2, 3}
EnsureCallersOf == {1}
DeleteCallersOf == {2}
CreateCallersOf == {3}

InitImageLocks ==
    /\ InitVolEmpty
    /\ loopVarShared = FALSE
    /\ InitPool
    /\ poolDefault = [block |-> TRUE, fs |-> "xfs", size |-> 2]
    /\ \/ imgRec = ImgNone /\ imgDisk = DiskNone
       \/ ImageCreatedUnder([block |-> TRUE, fs |-> "ext4", size |-> 0])
    /\ locks = [n \in ImageLockNames |-> 0]
    /\ proc = [p \in Procs |-> IdleProc]
    /\ unpacks = 0
    /\ ensured = 0
    /\ InitXfer
    /\ InitReady
    /\ InitUpdate
    /\ InitRefresh /\ InitSnap /\ InitCustomVol /\ InitScan /\ InitImport /\ InitCopyCall /\ InitCreate /\ InitCalls

NextImageLocks ==
    \/ \E p \in EnsureCallersOf : EnsureImage_Call(p, ImgPool)
    \/ \E p \in DeleteCallersOf : DeleteImage_Call(p)
    \/ \E p \in CreateCallersOf : CreateInstanceFromImage_Call(p)
    \/ \E p \in LockCallers : EnsureImage_Step(p, FALSE)
    \/ \E p \in LockCallers : DeleteImage_Step(p, FALSE)
    \/ \E p \in LockCallers : CreateInstanceFromImage_Step(p, FALSE)
    \/ \E p \in LockCallers : ImageReturn(p)

SpecImageLocks == InitImageLocks /\ [][NextImageLocks]_vars

\* EnsureImage calls and changes of the pool's block.filesystem between them.
ChangeProcs == {1, 2}

NextImageChange ==
    \/ \E p \in ChangeProcs : EnsureImage_Call(p, ImgPool)
    \/ \E p \in ChangeProcs : EnsureImage_Step(p, FALSE)
    \/ \E p \in ChangeProcs : DeleteImage_Step(p, FALSE)
    \/ \E p \in ChangeProcs : ImageReturn(p)
    \/ \E fs \in {"ext4", "xfs"} : Update(ClientTypeNormal, poolSize, poolSource, fs, FALSE, FALSE, FALSE)

SpecImageChange == InitImageAny /\ [][NextImageChange]_vars

\* Updates of the pool's config.
InitUpdateAny ==
    /\ InitVolEmpty /\ loopVarShared = FALSE
    /\ InitPool /\ InitImage /\ InitXfer
    /\ poolStatus \in [Pools -> PoolStatuses]
    /\ nodeState \in [Pools -> NodeStates]
    /\ \A p \in Pools \ {ImgPool} : poolStatus[p] = "Created" /\ nodeState[p] = "Created"
    /\ lastVolCall = NoVolCall
    /\ poolSize \in SizeStrings
    /\ poolSource = "/dev/sdb"
    /\ InitRefresh /\ InitSnap /\ InitCustomVol /\ InitScan /\ InitImport /\ InitCopyCall /\ InitCreate /\ InitCalls
    /\ lastUpdate = NoUpdate
    /\ oldImage = ImgNone

NextUpdate ==
    \E clientType \in ClientTypes, newSize \in SizeStrings, fs \in {"ext4", "xfs"},
       validateFails, driverFails, dbFails \in BOOLEAN :
        Update(clientType, newSize, poolSource, fs, validateFails, driverFails, dbFails)

SpecUpdate == InitUpdateAny /\ [][NextUpdate]_vars

\* Updates of the pool's source and size, the pool failing to mount and mounting again.
NextSource ==
    \/ \E clientType \in ClientTypes, newSize \in {poolSize, "2GiB"}, newSource \in Sources,
          validateFails, driverFails, dbFails \in BOOLEAN :
            Update(clientType, newSize, newSource, poolDefault.fs,
                   validateFails, driverFails, dbFails)
    \/ \E failAt \in {"", "driver.Mount"} : Mount(ImgPool, failAt, FALSE)

SpecSource == InitUpdateAny /\ [][NextSource]_vars

\* Refreshes of custom volumes and instances.
NextRefresh ==
    \/ \E samePool, snapshots \in BOOLEAN, src, tgt \in SUBSET RefreshSnapNames :
            RefreshCustomVolume_Call(samePool, snapshots, src, tgt)
    \/ \E samePool \in BOOLEAN, src, tgt \in SUBSET RefreshSnapNames :
            \E srcSnapshots \in SUBSET src :
                RefreshInstance_Call(samePool, src, srcSnapshots, tgt)
    \/ Refresh_Step
    \/ Refresh_Return

SpecRefresh == Init /\ [][NextRefresh]_vars

\* Concurrent snapshot creations.
NextSnap ==
    \/ \E c \in SnapCallers, kind \in SnapKinds, parent \in SnapParents :
            CreateSnapshot_Call(c, kind, parent)
    \/ \E c \in SnapCallers : CreateSnapshot_Step(c)
    \/ \E c \in SnapCallers : CreateSnapshot_Return(c)

SpecSnap == Init /\ [][NextSnap]_vars

\* Concurrent snapshots of the custom volumes, which exist.
InitCustomSnapshots ==
    /\ db = {Vol(VolumeTypeCustom, n, NoSnap) : n \in CustomVols}
    /\ disk = db
    /\ symlinks = {}
    /\ snapSymlinks = {}
    /\ op = Idle
    /\ faults = 0
    /\ dbConfig = [k \in AllVols |-> "a"]
    /\ loopVarShared = FALSE
    /\ InitPool
    /\ InitImage
    /\ InitXfer
    /\ InitReady
    /\ InitUpdate
    /\ InitRefresh /\ InitSnap /\ InitCustomVol /\ InitScan /\ InitImport /\ InitCopyCall /\ InitCreate /\ InitCalls

NextCustomSnapshots ==
    \/ \E c \in CsnapCallers, n \in CustomVols, s \in CsnapNames :
            CreateCustomVolumeSnapshotOf_Call(c, n, s)
    \/ \E c \in CsnapCallers, fault \in BOOLEAN : CreateCustomVolumeSnapshotOf_Step(c, fault)
    \/ \E c \in CsnapCallers : CreateCustomVolumeSnapshotOf_Return(c)

SpecCustomSnapshots == InitCustomSnapshots /\ [][NextCustomSnapshots]_vars

\* The configs that differ from config in at most one key.
NearConfigs(config) ==
    {config} \cup {[config EXCEPT ![k] = IF @ = "" THEN ConfigValue(k) ELSE ""] : k \in ConfigKeys}

\* Updates of a custom volume.
NextCustomVol ==
    \/ \E contentType \in ContentTypes, desc \in Descriptions, config \in VolConfigs :
            CreateCustomVolume_Config(contentType, desc, config)
    \/ CreateCustomVolumeFromISO
    \/ \E newDesc \in Descriptions, newConfig \in NearConfigs(cvol.config),
          validateFails, driverFails, dbFails \in BOOLEAN :
            UpdateCustomVolume(newDesc, newConfig, validateFails, driverFails, dbFails)

InitCustomVolOnly ==
    /\ InitVolEmpty /\ loopVarShared = FALSE
    /\ InitPool /\ InitImage /\ InitXfer /\ InitReady /\ InitUpdate /\ InitRefresh /\ InitSnap
    /\ InitCustomVol /\ InitScan /\ InitImport /\ InitCopyCall /\ InitCreate /\ InitCalls

SpecCustomVol == InitCustomVolOnly /\ [][NextCustomVol]_vars

\* The recovery scan of a pool with two instance volumes, the second one without snapshots.
InitScanAny ==
    /\ InitVolEmpty /\ loopVarShared = FALSE
    /\ InitPool /\ InitImage /\ InitXfer /\ InitReady /\ InitUpdate /\ InitRefresh /\ InitSnap
    /\ InitCustomVol /\ InitImport /\ InitCopyCall /\ InitCreate /\ InitCalls
    /\ \E v1 \in ScanInputs, instRec, volRec \in BOOLEAN :
            scan = [vols |-> [c1 |-> v1,
                              c2 |-> [PlainVolume EXCEPT !.instRec = instRec, !.volRec = volRec]],
                    called |-> FALSE, err |-> FALSE, result |-> {}]

NextScan == ListUnknownVolumes

SpecScan == InitScanAny /\ [][NextScan]_vars

\* Imports of recovered volumes.
NextImport ==
    \/ \E config \in ImportConfigs, snapshots \in ImportSnapshots, mountFails \in BOOLEAN :
            ImportCustomVolume(config, snapshots, mountFails)
    \/ \E config \in ImportConfigs, snapshots \in ImportSnapshots,
          instSnapshots, mountFails \in BOOLEAN :
            ImportInstance(config, snapshots, instSnapshots, mountFails)

SpecImport == Init /\ [][NextImport]_vars

\* Instance copies, refreshes and migrations, any step of which may fail.
SpecCopyCall == Init /\ [][NextCopyCall]_vars

\* Cross-pool copies and refreshes.
NextCopy ==
    \/ \E kind \in {"instance", "custom"}, refresh \in BOOLEAN : Copy_Call(kind, refresh)
    \/ Sender_Step
    \/ Receiver_Step
    \/ Parent_Step
    \/ Xfer_Return

SpecCopy == Init /\ [][NextCopy]_vars

\* Both tasks and the waiting call are goroutines, which the scheduler keeps running.
SpecCopyFair ==
    SpecCopy /\ WF_vars(Sender_Step) /\ WF_vars(Receiver_Step) /\ WF_vars(Parent_Step)

\* Migrations between two servers.
NextMigration ==
    \/ \E kind \in {"instance", "custom"},
          refresh, dbVol, volExists, snapshots, finalSync \in BOOLEAN :
            Migration_Call(kind, refresh, dbVol, volExists, snapshots, finalSync)
    \/ Sender_Step
    \/ Receiver_Step
    \/ Xfer_Return

SpecMigration == Init /\ [][NextMigration]_vars

\* Volume-producing calls on pools of any status and availability.
ReadyPools == {"p1", "p2"}

InitReadyAny ==
    /\ InitVolEmpty /\ loopVarShared = FALSE
    /\ InitPool /\ InitImage /\ InitXfer /\ InitUpdate /\ InitRefresh /\ InitSnap /\ InitCustomVol /\ InitScan /\ InitImport /\ InitCopyCall /\ InitCreate /\ InitCalls
    /\ poolStatus \in [Pools -> PoolStatuses]
    /\ nodeState = [p \in Pools |-> "Created"]
    /\ lastVolCall = NoVolCall

NextReady ==
    \/ \E p \in ReadyPools, failAt \in {"", "driver.Mount"} : Mount(p, failAt, FALSE)
    \/ \E opn \in VolumeOps, p \in ReadyPools, samePool, fails \in BOOLEAN :
            VolumeCall(opn, p, samePool, fails)

SpecReady == InitReadyAny /\ [][NextReady]_vars

\* Calls on the pools.
NextPool ==
    \/ \E p \in Pools, failAt \in MountFailures, unmountFails \in BOOLEAN :
            Mount(p, failAt, unmountFails)
    \/ \E p \in Pools, fails \in BOOLEAN : Unmount(p, fails)
    \/ \E p \in Pools, clientType \in ClientTypes, failAt \in DeleteFailures :
            Delete(p, clientType, failAt)

SpecPool == Init /\ [][NextPool]_vars

\* Create calls on pools whose mount path exists or not, and Delete calls that remove it.
NextCreate ==
    \/ \E p \in Pools, clientType \in ClientTypes : Create_Call(p, clientType)
    \/ \E fault \in BOOLEAN : Create_Step(fault)
    \/ Create_Revert
    \/ Create_Return
    \/ \E p \in Pools : /\ createOp.pc = "idle"
                        /\ Mount(p, "", FALSE)

SpecCreate == Init /\ [][NextCreate]_vars

\* Calls that receive the records of snapshots, with every header.
NextSnapshotRecords ==
    \E snaps \in ReceivedLists, header \in HeaderLists \cup {NoHeader} :
        SnapshotRecords_Call(snaps, header)

SpecSnapshotRecords == Init /\ [][NextSnapshotRecords]_vars

\* Calls that set the quota of an instance.
NextQuota ==
    \E vmBlock \in BOOLEAN, size \in QuotaSizes, vmStateSize \in StateSizes,
       failAt \in QuotaFailures : SetInstanceQuota(vmBlock, size, vmStateSize, failAt)

SpecQuota == Init /\ [][NextQuota]_vars

(***************************************************************************)
(* Properties of the volume operations.                                    *)
(***************************************************************************)
\* The state a successful call would produce from the state o.pre it started in.
SuccessState(o) ==
    LET P == o.pre
        k == Vol(o.vt, o.name, o.snap)
        renamed(set) == {IF v.vt = o.vt /\ v.name = o.name THEN Vol(o.vt, o.newName, v.snap) ELSE v
                            : v \in set}
        hadSnaps == SnapsOf(P.db, o.vt, o.name) # {} IN
    CASE o.kind \in {"CreateInstance"} ->
            [P EXCEPT !.db = @ \cup {k}, !.disk = @ \cup {k}, !.symlinks = @ \cup {o.name}]
      [] o.kind = "CreateCustomVolume" ->
            [P EXCEPT !.db = @ \cup {k}, !.disk = @ \cup {k}]
      [] o.kind = "DeleteInstance" ->
            [P EXCEPT !.db = @ \ {k}, !.disk = @ \ {k}, !.symlinks = @ \ {o.name},
                      !.snapSymlinks = IF SnapsOf(P.disk, o.vt, o.name) = {} THEN @ \ {o.name} ELSE @]
      [] o.kind = "DeleteCustomVolume" ->
            [P EXCEPT !.db = {v \in @ : ~(v.vt = o.vt /\ v.name = o.name)},
                      !.disk = {v \in @ : ~(v.vt = o.vt /\ v.name = o.name
                                              /\ Vol(o.vt, o.name, v.snap) \in P.db)}]
      [] o.kind = "CreateInstanceSnapshot" ->
            [P EXCEPT !.db = @ \cup {k}, !.disk = @ \cup {k}, !.snapSymlinks = @ \cup {o.name}]
      [] o.kind = "CreateCustomVolumeSnapshot" ->
            [P EXCEPT !.db = @ \cup {k}, !.disk = @ \cup {k}]
      [] o.kind = "DeleteInstanceSnapshot" ->
            [P EXCEPT !.db = @ \ {k}, !.disk = @ \ {k},
                      !.snapSymlinks = IF SnapsOf(P.disk \ {k}, o.vt, o.name) = {}
                                       THEN @ \ {o.name} ELSE @]
      [] o.kind = "DeleteCustomVolumeSnapshot" ->
            [P EXCEPT !.db = @ \ {k}, !.disk = @ \ {k}]
      [] o.kind = "RenameInstance" ->
            [P EXCEPT !.db = renamed(@), !.disk = renamed(@),
                      !.symlinks = (@ \ {o.name}) \cup {o.newName},
                      !.snapSymlinks = IF hadSnaps THEN (@ \ {o.name}) \cup {o.newName}
                                       ELSE @ \ {o.name}]
      [] o.kind = "RenameCustomVolume" ->
            [P EXCEPT !.db = renamed(@), !.disk = renamed(@)]
      [] OTHER -> P

\* C1 (as claimed): when a call returns, after a fault at any single step, the records,
\* the on-disk volumes and the symlinks are those before the call or those a successful
\* call produces, never a mixture.
C1_PreOrSuccessState ==
    op.pc = "returned" => (St = op.pre \/ St = SuccessState(op))

\* C2 (as claimed): in every state of the database, the intermediate states of a call
\* included, every snapshot record parent/snap has a parent record of the same type.
C2_SnapshotHasParent ==
    \A k \in db : IsSnapshot(k) => Vol(k.vt, k.name, NoSnap) \in db

\* The records of the volume being renamed that carry the new parent name already.
RenamedRecords(o) ==
    {k \in o.pre.db : k.vt = o.vt /\ k.name = o.name
                        /\ Vol(o.vt, o.newName, k.snap) \in db /\ k \notin db}
RenameFamily(o) == {k \in o.pre.db : k.vt = o.vt /\ k.name = o.name}

\* C3 (as claimed): a rename changes the parent record and all its snapshot records in
\* one transaction: no state has some of them under the new name and others under the old.
C3_RenameInOneTransaction ==
    op.kind \in {"RenameInstance", "RenameCustomVolume"}
        => RenamedRecords(op) \in {{}, RenameFamily(op)}

\* The call found snapshot records of the parent when it started.
HadSnapshotRecords(o) == SnapsOf(o.pre.db, o.vt, o.name) # {}

\* C4 (as claimed): deleting a parent that has a snapshot record, by DeleteInstance or by
\* DeleteCustomVolume, is refused with an error and removes nothing.
C4_DeleteParentRefused ==
    (op.kind \in {"DeleteInstance", "DeleteCustomVolume"} /\ op.pc = "returned"
        /\ HadSnapshotRecords(op))
        => (op.err /\ St = op.pre)

\* C4 (amended): DeleteInstance on a parent that has a snapshot record is refused with an
\* error and removes nothing; DeleteCustomVolume is not refused: when it succeeds, the
\* snapshot records and volumes it found are removed along with the parent.
C4_DeleteInstanceRefused ==
    /\ (op.kind = "DeleteInstance" /\ op.pc = "returned" /\ HadSnapshotRecords(op))
            => (op.err /\ St = op.pre)
    /\ (op.kind = "DeleteCustomVolume" /\ op.pc = "returned" /\ ~op.err)
            => /\ \A k \in db : ~(k.vt = op.vt /\ k.name = op.name)
               /\ \A k \in op.pre.db : (k.vt = op.vt /\ k.name = op.name) => k \notin disk

C4_Witness ==
    op.kind = "DeleteInstance" /\ op.pc = "returned" /\ HadSnapshotRecords(op) /\ op.err

(***************************************************************************)
(* Properties of the pool operations.                                      *)
(***************************************************************************)
\* C10: right after a Mount call returns, the pool is in the unavailable set if the call
\* returned an error and is not in the set if it returned success, whatever the set held
\* before the call.
C10_MountSetsAvailability ==
    lastPoolCall.call = "Mount"
        => (lastPoolCall.err <=> lastPoolCall.pool \in unavailablePools)

\* A Mount that succeeded on a pool that was marked unavailable before the call.
C10_Witness ==
    /\ lastPoolCall.call = "Mount"
    /\ ~lastPoolCall.err
    /\ lastPoolCall.before
    /\ lastPoolCall.pool \notin unavailablePools

\* C11: right after a pool Delete returns success, the pool is not in the unavailable set,
\* for every client type and whether or not the pool's mount path existed at the call.
C11_DeleteClearsUnavailable ==
    (lastPoolCall.call \in {"Delete", "DeleteGone"} /\ ~lastPoolCall.err)
        => lastPoolCall.pool \notin unavailablePools

\* The pool was pending or unavailable on this server when the last call was made.
CalledWhileNotReady == lastVolCall.op # "none" /\ lastVolCall.ready # "nil"

\* C12: a volume-producing operation called while the pool is pending or locally
\* unavailable fails with an error of the service-unavailable kind and creates no
\* record, no on-disk volume and no symlink.
C12_NotReadyIsServiceUnavailable ==
    CalledWhileNotReady
        => /\ lastVolCall.err = "ServiceUnavailable"
           /\ ~lastVolCall.db /\ ~lastVolCall.disk /\ ~lastVolCall.symlink

(***************************************************************************)
(* Properties of the restore operations.                                   *)
(***************************************************************************)
\* The snapshots of the call's volume whose records the call has removed.
DeletedSnapshots(o) ==
    {k.snap : k \in {j \in o.pre.db \ db : j.vt = o.vt /\ j.name = o.name}}

\* C9: a restore calls the driver's RestoreVolume at most twice; when the first call
\* returned ErrDeleteSnapshots and the restore has returned, either a deletion failed and
\* the error was returned without a second call, or exactly the named snapshots were
\* deleted and RestoreVolume was called exactly once more, and a failure of that second
\* call was returned to the caller.
C9_RestoreRetriesOnce ==
    op.kind \in {"RestoreInstanceSnapshot", "RestoreCustomVolume"}
        => /\ op.calls <= 2
           /\ (op.pc = "returned" /\ op.named # {})
                => /\ op.calls = 1 => (op.err /\ DeletedSnapshots(op) \subseteq op.named)
                   /\ op.calls = 2 => DeletedSnapshots(op) = op.named
                   /\ op.retryErr => op.err
           /\ (op.pc = "RestoreVolumeRetry") => DeletedSnapshots(op) = op.named

\* A restore whose driver named one of two other snapshots, deleted it, and whose second
\* RestoreVolume call failed.
C9_Witness ==
    /\ op.kind \in {"RestoreInstanceSnapshot", "RestoreCustomVolume"}
    /\ op.pc = "returned" /\ op.calls = 2 /\ op.retryErr /\ op.err
    /\ op.named = {"s3"}
    /\ Vol(op.vt, op.name, "s2") \in db
    /\ Vol(op.vt, op.name, "s3") \notin db

(***************************************************************************)
(* Properties of the image operations.                                     *)
(***************************************************************************)
\* C5: with any number of concurrent EnsureImage calls for the fingerprint on the pool,
\* none of which fails, the image is unpacked at most once, and once a call has returned
\* there is exactly one record and one completely unpacked on-disk image volume, made
\* under the pool's settings.
C5_UnpackedAtMostOnce ==
    /\ unpacks <= 1
    /\ ensured > 0 =>
        /\ imgRec.exists /\ imgDisk.exists /\ imgDisk.full
        /\ ~blockModeChanged(FillVolumeConfig(poolDefault), imgRec)
        /\ ~blockFSChanged(FillVolumeConfig(poolDefault), imgRec)
        /\ imgDisk.block = imgRec.block /\ imgDisk.fs = imgRec.fs

\* Two calls have returned, another holds the lock, and the image was unpacked once.
C5_Witness ==
    /\ ensured = 2
    /\ unpacks = 1
    /\ \E p \in Procs : locks[EnsureImageLock] = p /\ proc[p].pc = "SetVolumeQuota"

\* The steps of EnsureImage that create, delete, fill or record something.
ImageWorkPcs ==
    {"DeleteImage.Lock", "DeleteImage.VolumeDBGet", "DeleteImage.DeleteVolume",
     "DeleteImage.VolumeDBDelete", "DeleteVolume", "VolumeDBCreate", "CreateVolume", "Fill",
     "UpdateStoragePoolVolume", "revert"}

\* C13: an EnsureImage call made after a successful one, on a pool whose settings have not
\* changed, creates nothing, deletes nothing and leaves the record as it was: it reaches
\* no step that creates, deletes or unpacks, its driver calls (the probes Info,
\* FillVolumeConfig and HasVolume, and SetVolumeQuota with the size the volume has) change
\* nothing on the storage device, and it returns success.
C13_RepeatedEnsureImageIsNoop ==
    \A p \in Procs :
        (proc[p].kind = "EnsureImage" /\ proc[p].repeat)
            => /\ imgRec = proc[p].pre.rec
               /\ imgDisk = proc[p].pre.disk
               /\ unpacks = proc[p].pre.unpacks
               /\ proc[p].pc \notin ImageWorkPcs
               /\ proc[p].pc = "done" => ~proc[p].err

\* A repeated call has returned for a block-backed image volume that an earlier call had
\* to unpack.
C13_Witness ==
    \E p \in Procs :
        /\ proc[p].kind = "EnsureImage" /\ proc[p].repeat /\ proc[p].pc = "done"
        /\ ~proc[p].err
        /\ imgRec.block /\ imgDisk.full /\ unpacks = 1

\* The pool's block.filesystem was changed while a block-backed image volume made with
\* another filesystem was cached, and the pool is block-backed.
StaleImage ==
    /\ oldImage.exists /\ oldImage.block /\ poolDefault.block
    /\ oldImage.fs # poolDefault.fs

\* C14: after the block.filesystem of a block-backed pool is changed, the next EnsureImage
\* call deletes the cached image volume and its record and creates them again with the
\* new filesystem, once: when a call has returned the image was unpacked exactly once since
\* the change and has the new filesystem, and however many calls follow it is not unpacked
\* a second time.
C14_RegeneratedExactlyOnce ==
    StaleImage
        => /\ unpacks <= 1
           /\ ensured > 0
                => /\ unpacks = 1
                   /\ imgRec.exists /\ imgRec.block /\ imgRec.fs = poolDefault.fs
                   /\ imgDisk.exists /\ imgDisk.full /\ imgDisk.fs = poolDefault.fs
           /\ unpacks = 0 /\ (\A p \in Procs : proc[p].pc \in {"idle", "done"})
                => imgRec = oldImage

\* Two calls have returned since the change to xfs and a third one is reusing the image
\* volume the first of them made.
C14_Witness ==
    /\ StaleImage /\ oldImage.fs = "ext4"
    /\ ensured = 2 /\ unpacks = 1
    /\ imgRec.fs = "xfs" /\ imgDisk.fs = "xfs"
    /\ \E p \in Procs : proc[p].pc = "SetVolumeQuota"

(***************************************************************************)
(* Transfers.                                                              *)
(***************************************************************************)
\* A task of a cross-pool copy or refresh has failed.
CopyTaskFailed == xfer.mode = "copy" /\ (xfer.sErr = "err" \/ xfer.rErr = "err")

\* A task of a cross-pool copy or refresh has finished with an error.
CopyTaskExitedWithError ==
    /\ xfer.mode = "copy"
    /\ \/ xfer.sPc = "done" /\ xfer.sErr = "err"
       \/ xfer.rPc = "done" /\ xfer.rErr = "err"

\* C6: in a cross-pool copy or refresh, once a task has finished with an error the
\* context is cancelled and the pipe pair closed, and a failure of either task leads to
\* the return of the whole operation: the surviving task never keeps it waiting.
C6_FailureTearsDownBoth ==
    /\ [](CopyTaskExitedWithError => PipeClosed(xfer))
    /\ CopyTaskFailed ~> (xfer.pPc = "returned")

\* The receiver of a custom volume copy failed while the sender was still sending; the
\* sender was cut short by the closed pipe and the copy returned.
C6_Witness ==
    /\ xfer.mode = "copy" /\ xfer.kind = "custom"
    /\ xfer.pPc = "returned"
    /\ xfer.rErr = "err" /\ xfer.sErr = "err"
    /\ 0 < xfer.sent /\ xfer.sent < NumChunks
    /\ xfer.ret = {"sender", "receiver"}

\* C7: when both tasks of a cross-pool copy or refresh have failed, the error the
\* operation returns contains the sender's error and the receiver's error.
C7_BothErrorsReturned ==
    (xfer.mode = "copy" /\ xfer.pPc = "returned" /\ xfer.sErr = "err" /\ xfer.rErr = "err")
        => xfer.ret = {"sender", "receiver"}

\* A migration whose receiver was called with Refresh=true for a volume that does not exist.
RefreshOfMissingVolume ==
    xfer.mode = "migration" /\ xfer.refresh /\ ~xfer.tgt0 /\ ~xfer.db0

\* The sender has taken the receiver's reply.
SenderTransfers == xfer.sPc = "MigrateVolume" \/ xfer.sent > 0

\* The receiver is past the creation of the volume record.
ReceiverCreated ==
    xfer.rPc \in {"recvData", "ensureInstanceSymlink"} \/ (xfer.rPc \in {"exit", "done"} /\ xfer.rErr = "nil")

\* C8 as stated: a receiver of either kind called with Refresh=true for a volume that
\* does not exist replies Refresh=false, creates the volume, and the sender transfers
\* with Refresh=false.
C8_ReceiverRepliesNoRefresh ==
    RefreshOfMissingVolume
        => /\ xfer.replied \in {"none", "false"}
           /\ SenderTransfers => ~xfer.sRefresh
           /\ ReceiverCreated => ~xfer.rRefresh /\ xfer.tgtDb

\* C8 as the code has it: CreateCustomVolumeFromMigration called with Refresh=true for a
\* volume that does not exist replies Refresh=false, creates the volume record as a
\* non-refresh create does, and the sender transfers with Refresh=false;
\* CreateInstanceFromMigration replies with the Refresh=true it was given, so that the
\* sender transfers with Refresh=true, and then fails without creating anything.
C8_CustomReceiverRepliesNoRefresh ==
    RefreshOfMissingVolume
        => IF xfer.kind = "custom"
           THEN /\ xfer.replied \in {"none", "false"}
                /\ SenderTransfers => ~xfer.sRefresh
                /\ ReceiverCreated => ~xfer.rRefresh /\ xfer.tgtDb
           ELSE /\ xfer.replied \in {"none", "true"}
                /\ SenderTransfers => xfer.sRefresh
                /\ ~ReceiverCreated /\ ~xfer.tgtDb /\ ~xfer.tgtDisk
                /\ xfer.rPc = "done" => xfer.rErr = "err"

\* The custom volume receiver has completed the non-refresh create and the sender, called
\* with Refresh=true, has sent everything with Refresh=false.
C8_Witness ==
    /\ RefreshOfMissingVolume /\ xfer.kind = "custom"
    /\ xfer.replied = "false" /\ ~xfer.sRefresh /\ xfer.sent = NumChunks
    /\ xfer.rPc = "done" /\ xfer.rErr = "nil" /\ xfer.tgtDb /\ xfer.tgtDisk

\* A migration to a server where the target volume has a record but is not on storage, or
\* is on storage but has no record.
InconsistentTarget == xfer.mode = "migration" /\ xfer.db0 # xfer.tgt0

\* C15: a migration receiver that finds the target volume in the database but not on
\* storage, or on storage but not in the database, fails, and neither creates nor deletes
\* a record or an on-disk volume: the records and the storage stay as they were.
C15_InconsistencyNotRepaired ==
    InconsistentTarget
        => /\ xfer.tgtDb = xfer.db0 /\ xfer.tgtDisk = xfer.tgt0
           /\ xfer.hooks = <<>>
           /\ xfer.rPc \in {"exit", "done"} => xfer.rErr = "err"
           /\ xfer.rPc \notin {"create", "recvData", "ensureInstanceSymlink"}

\* CreateInstanceFromMigration has replied to the index header and then failed on a volume
\* that is on storage without a record.
C15_Witness ==
    /\ InconsistentTarget /\ xfer.kind = "instance" /\ xfer.tgt0 /\ ~xfer.db0
    /\ xfer.replied # "none"
    /\ xfer.rPc = "done" /\ xfer.rErr = "err"
    /\ xfer.tgtDisk /\ ~xfer.tgtDb

\* C19: a migration sender called with FinalSync and a non-empty snapshot list returns an
\* error before it sends the index header or any volume data.
C19_FinalSyncWithSnapshotsRefused ==
    (xfer.mode = "migration" /\ xfer.finalSync /\ xfer.snapshots)
        => /\ ~xfer.hdrSent /\ xfer.sent = 0
           /\ xfer.sPc \in {"exit", "done"} => xfer.sErr = "err"

(***************************************************************************)
(* Properties of the pool Update.                                          *)
(***************************************************************************)
\* C20: an Update whose new size is strictly smaller than the pool's current size returns
\* an error, calls neither the driver's Update nor UpdateStoragePool, and the pool's
\* record keeps its size.
C20_ShrinkRefused ==
    (lastUpdate.called
        /\ ParseByteSizeString(lastUpdate.newSize) < ParseByteSizeString(lastUpdate.oldSize))
        => /\ lastUpdate.err
           /\ ~lastUpdate.driverUpdate /\ ~lastUpdate.dbWrite
           /\ poolSize = lastUpdate.oldSize

\* An Update from 1GiB to 512MiB on a pool that is not pending has been refused.
C20_Witness ==
    /\ lastUpdate.called /\ lastUpdate.oldSize = "1GiB" /\ lastUpdate.newSize = "512MiB"
    /\ poolStatus[ImgPool] = "Created"
    /\ lastUpdate.err /\ poolSize = "1GiB"

(***************************************************************************)
(* Properties of the refreshes.                                            *)
(***************************************************************************)
\* The snapshots the refresh in flight has deleted from the target, and those it has synced.
RefreshDeleted ==
    LET isDelete(e) == e.ev = "delete" IN SelectSeq(rf.log, isDelete)

RefreshSynced ==
    LET isSnapSync(e) == e.ev = "sync" /\ e.snap # "" IN SelectSeq(rf.log, isSnapSync)

\* The refresh of a target with the snapshots A, B, C from a source with A, B, D has
\* returned, nothing having gone wrong below it.
SharedABC ==
    /\ rf.kind \in {"custom", "instance"}
    /\ rf.snapshots
    /\ rf.tgt0 = {"A", "B", "C"}
    /\ rf.src = {"A", "B", "D"}
    /\ rf.pc = "returned"
    /\ ~rf.faulted

\* C16: a refresh whose source and target share the snapshots A, B, C, the source having
\* added D and lost C, deletes exactly C from the target, transfers exactly D, and leaves
\* the target with the snapshot names of the source.
C16_RefreshMinimal ==
    SharedABC =>
        /\ ~rf.err
        /\ RefreshDeleted = <<[ev |-> "delete", snap |-> "C"]>>
        /\ RefreshSynced = <<[ev |-> "sync", snap |-> "D"]>>
        /\ rf.tgtDb = rf.src
        /\ rf.tgtDisk = rf.src

\* C17: during a refresh every deletion of an extra target snapshot is complete before
\* any snapshot or volume data is synced to the target.
C17_DeleteBeforeSync ==
    \A i, j \in 1..Len(rf.log) :
        (rf.log[i].ev = "sync" /\ rf.log[j].ev = "delete") => j < i

\* A refresh that has deleted extra target snapshots and has synced since.
C17_Witness ==
    /\ rf.kind = "custom"
    /\ Len(RefreshDeleted) > 0
    /\ Len(RefreshSynced) > 0
    /\ rf.pc = "returned"
    /\ ~rf.err

(***************************************************************************)
(* Properties of the snapshot creations.                                   *)
(***************************************************************************)
\* Call c is inside the driver's CreateVolumeSnapshot.
InDriver(c) == snapCall[c].pc = "driver"

SameParent(c, d) ==
    /\ snapCall[c].kind = snapCall[d].kind
    /\ snapCall[c].parent = snapCall[d].parent

\* C18: two snapshot creations for the same parent volume are never inside the driver's
\* CreateVolumeSnapshot at the same time: a call inside the driver holds the lock named
\* after the parent, and a call that has returned holds no lock.
C18_SnapshotCreationSerialized ==
    /\ \A c, d \in SnapCallers :
           (c # d /\ InDriver(c) /\ InDriver(d)) => ~SameParent(c, d)
    /\ \A c \in SnapCallers : InDriver(c) => snapLocks[SnapLockOf(c)] = c
    /\ \A c \in SnapCallers :
           snapCall[c].pc \in {"idle", "done"} => \A n \in SnapLockNames : snapLocks[n] # c

\* One call is inside the driver while another call for the same parent waits for the
\* lock, and a third has returned an error after holding it.
C18_Witness ==
    \E c, d, e \in SnapCallers :
        /\ c # d
        /\ InDriver(c)
        /\ snapCall[d].pc = "Lock"
        /\ SameParent(c, d)
        /\ snapCall[e].pc = "done"
        /\ snapCall[e].err
        /\ SameParent(c, e)

\* The Update that returned last asked for another source.
SourceChanged == lastUpdate.called /\ lastUpdate.newSource # lastUpdate.oldSource

\* C21: an Update that changes the pool's source is accepted only while the status of the
\* pool on this member is pending; otherwise it returns an error, the driver's Update is
\* not called and the pool's record is not written.
C21_SourceChangeOnlyWhilePending ==
    (SourceChanged /\ lastUpdate.localStatus # "Pending")
        => /\ lastUpdate.err
           /\ ~lastUpdate.driverUpdate /\ ~lastUpdate.dbWrite
           /\ poolSource = lastUpdate.oldSource
           /\ poolSize = lastUpdate.oldSize

\* A change of the source of a created pool was refused after one of a pending pool was
\* written.
C21_Witness ==
    /\ SourceChanged
    /\ lastUpdate.localStatus \in {"Created", "Unavailable", "Unknown"}
    /\ lastUpdate.err
    /\ poolSource = "/dev/sdc"

\* C22: LocalStatus is "Unavailable" for every pool in the unavailable set, and neither a
\* Mount that fails and marks the pool unavailable nor a call that reads LocalStatus
\* changes the status of the pool's record: Status is the same before and after.
C22_UnavailableWithoutMutation ==
    /\ [](\A p \in unavailablePools : LocalStatus(p, unavailablePools) = "Unavailable")
    /\ [][\A p \in Pools : Status(p)' = Status(p)]_vars

\* A created pool failed to mount: it is unavailable here and its record still says
\* created, also after an Update has read its local status.
C22_Witness ==
    /\ ImgPool \in unavailablePools
    /\ lastPoolCall.call = "Mount" /\ lastPoolCall.err /\ ~lastPoolCall.before
    /\ lastUpdate.called /\ lastUpdate.localStatus = "Unavailable"
    /\ LocalStatus(ImgPool, unavailablePools) = "Unavailable"
    /\ Status(ImgPool) = "Created"
    /\ nodeState[ImgPool] = "Created"

(***************************************************************************)
(* Properties of UpdateCustomVolume.                                       *)
(***************************************************************************)
\* C23: the configuration of an iso custom volume never changes after its creation: an
\* UpdateCustomVolume that comes with any config difference returns an error, and no call
\* changes the config of the volume's record or of the driver's volume.
C23_IsoConfigImmutable ==
    /\ []((cvol.contentType = "iso" /\ lastVolUpdate.called /\ lastVolUpdate.changed)
            => lastVolUpdate.err)
    /\ [][cvol.contentType = "iso"
            => /\ cvol'.contentType = "iso"
               /\ cvol'.config = cvol.config
               /\ cvol'.driver = cvol.driver]_vars

\* An iso volume whose description was updated and whose last update, one with another
\* config, was refused.
C23_Witness ==
    /\ cvol.contentType = "iso"
    /\ cvol.desc = "d1"
    /\ lastVolUpdate.called /\ lastVolUpdate.changed /\ lastVolUpdate.err
    /\ cvol.config = [EmptyConfig EXCEPT !["size"] = "1GiB"]
    /\ cvol.driver = cvol.config

(***************************************************************************)
(* Properties of the recovery scan.                                        *)
(***************************************************************************)
\* A record exists for the instance, for its storage volume or for one of the snapshots
\* the volume has on the storage device.
HasRecord(v) ==
    \/ v.instRec
    \/ v.volRec
    \/ \E s \in v.driverSnapshots : s \in v.instSnapshots \/ s \in v.volSnapshots

\* C24: the recovery scan returns an instance volume as recoverable only if no record
\* exists for the instance, for its storage volume or for any of its snapshots.
C24_OnlyUnknownVolumesReported ==
    scan.called => \A name \in scan.result : ~HasRecord(scan.vols[name])

\* A scan that returns the first volume, which has snapshots and no records, and leaves
\* out the second, which has its records.
C24_Witness ==
    /\ scan.called /\ ~scan.err
    /\ scan.result = {"c1"}
    /\ scan.vols["c1"].driverSnapshots = ScanSnapNames
    /\ Known(scan.vols["c2"])


(***************************************************************************)
(* Properties of the imports.                                              *)
(***************************************************************************)
\* The descriptor of the last import holds a key the driver does not know.
UnknownKeyImported ==
    /\ lastImport.kind # "none"
    /\ ~lastImport.faulted
    /\ \/ ~(lastImport.config \subseteq KnownKeys)
       \/ \E i \in 1..Len(lastImport.snapshots) : ~(lastImport.snapshots[i] \subseteq KnownKeys)

\* C25: an import whose descriptor holds a key the driver does not know makes the records
\* of the volume and of its snapshots from the descriptor's config without that key: the
\* config is neither stored with the key nor rejected.
C25_ImportStripsUnknownKeys ==
    UnknownKeyImported
        => /\ ~lastImport.err
           /\ lastImport.volume = Record(lastImport.config \cap KnownKeys)
           /\ lastImport.snapshot.config \subseteq KnownKeys


(***************************************************************************)
(* Properties of the failed renames.                                       *)
(***************************************************************************)
\* RenameInstance has returned an error. The instance it was called on had its
\* snapshot symlink exactly when it had snapshot records, as every call that
\* succeeds leaves it.
RenameFailed ==
    /\ op.kind = "RenameInstance" /\ op.pc = "returned" /\ op.err
    /\ op.name \in op.pre.snapSymlinks <=> SnapsOf(op.pre.db, op.vt, op.name) # {}

\* The database, the storage device and the symlinks are as they were when the
\* call in flight was made.
Restored ==
    /\ db = op.pre.db
    /\ disk = op.pre.disk
    /\ symlinks = op.pre.symlinks
    /\ snapSymlinks = op.pre.snapSymlinks

EnsureImageReturned(p) ==
    proc[p].pc = "done" /\ proc[p].kind = "EnsureImage" /\ OptimizedImages(proc[p].pool)

\* C27: whenever EnsureImage has returned, with success or with an error, on a driver
\* with optimized images, the image's record exists if and only if its on-disk
\* volume exists, whichever of the two existed when the call was made.
C27_RecordIffVolume ==
    \A p \in Procs : EnsureImageReturned(p) => (imgRec.exists <=> imgDisk.exists)

(***************************************************************************)
(* Properties of the locks of the image operations.                        *)
(***************************************************************************)
\* The lock the call of p is about to take, "" when its next step takes none.
WaitsOn(p) ==
    CASE proc[p].pc = "Lock" -> EnsureImageLock
      [] proc[p].pc = "DeleteImage.Lock" -> DeleteImageLock
      [] proc[p].pc \in {"CreateVolume", "DeleteImage.DeleteVolume",
                         "CreateInstanceFromImage.CreateVolumeFromCopy"} -> VolumeLock
      [] OTHER -> ""

\* The call of p cannot go on before another call releases a lock.
Blocked(p) == WaitsOn(p) # "" /\ ~LockFree(locks[WaitsOn(p)])

\* A set of calls each of which waits for a lock that a call of the set holds.
Deadlocked == \E S \in SUBSET Procs \ {{}} : \A p \in S : Blocked(p) /\ locks[WaitsOn(p)] \in S

\* The order in which a call takes the locks.
LockOrder == <<EnsureImageLock, DeleteImageLock, VolumeLock>>
Before(m, n) == \E i, j \in 1..Len(LockOrder) : i < j /\ LockOrder[i] = m /\ LockOrder[j] = n

\* C28: concurrent EnsureImage, DeleteImage and CreateInstanceFromImage calls on one
\* pool never deadlock: the EnsureImage lock, the DeleteImage lock and the volume-level
\* lock are three different locks, no set of calls waits in a cycle, and a call that
\* takes a lock holds only locks that come before it in the one order EnsureImage,
\* DeleteImage, volume.
C28_NoDeadlock ==
    /\ [](Cardinality(ImageLockNames) = 3 /\ ~Deadlocked)
    /\ [][\A p \in Procs, n \in ImageLockNames :
            (locks[n] # p /\ locks'[n] = p)
                => \A m \in ImageLockNames : locks[m] = p => Before(m, n)]_vars

\* CreateInstanceFromImage waits for the EnsureImage lock, whose holder waits for the
\* DeleteImage lock, whose holder is about to delete the volume.
C28_Witness ==
    /\ \E p \in Procs : proc[p].kind = "CreateInstanceFromImage" /\ proc[p].pc = "Lock" /\ Blocked(p)
    /\ \E p \in Procs : /\ proc[p].kind = "EnsureImage" /\ locks[EnsureImageLock] = p
                         /\ proc[p].pc = "DeleteImage.Lock" /\ Blocked(p)
    /\ \E p \in Procs : /\ proc[p].kind = "DeleteImage" /\ locks[DeleteImageLock] = p
                         /\ proc[p].pc = "DeleteImage.DeleteVolume"

(***************************************************************************)
(* Properties of the freeze of the source instance.                        *)
(***************************************************************************)
\* The call in flight was made on a source instance that was running and not frozen,
\* whose driver reports RunningCopyFreeze, with allowInconsistent false.
MustFreeze ==
    /\ cp.kind \in CopyKinds
    /\ cp.src0.running /\ ~cp.src0.frozen
    /\ cp.copyFreeze /\ ~cp.allowInconsistent

\* The call is copying or sending the volume's data.
Transferring == cp.pc \in {"CopyVolume", "MigrateVolume"}

\* C29: when the source instance is running and not frozen, its driver reports
\* RunningCopyFreeze and allowInconsistent is false, the source is frozen whenever the
\* call is about to copy or send data, from the first chunk to the last, no chunk is
\* copied while it is not frozen, and it is not frozen when the call has returned,
\* with or without an error.
C29_FrozenDuringTransfer ==
    /\ [](MustFreeze /\ Transferring => cp.src.frozen)
    /\ [](MustFreeze /\ cp.pc = "returned" => ~cp.src.frozen)
    /\ [][MustFreeze /\ cp'.copied > cp.copied => cp.src.frozen]_vars

\* A copy of a running instance has failed after it had copied data, and the source
\* is not frozen any more.
C29_Witness ==
    /\ MustFreeze
    /\ cp.pc \in {"revert", "returned"}
    /\ cp.err \in {"CopyVolume", "MigrateVolume"}
    /\ cp.copied > 0
    /\ ~cp.src.frozen

(***************************************************************************)
(* Properties of the compensating actions.                                 *)
(***************************************************************************)
\* The copy or refresh has returned an error.
CopyFailed == cp.kind \in CopyKinds /\ cp.pc = "returned" /\ cp.err # ""

\* Every compensating action that was registered when the call failed has run, the
\* last registered first.
AllRanInReverse ==
    /\ Len(cp.ran) = Len(cp.registered)
    /\ \A i \in 1..Len(cp.ran) : cp.ran[i].hook = cp.registered[Len(cp.registered) + 1 - i]

\* C30: when a copy or refresh fails, every compensating action registered so far runs,
\* in reverse order of registration, whether or not one of them fails, and the error
\* the call returns is the error of the step that failed, which no compensating action
\* changes.
C30_CompensationFailureIgnored ==
    /\ [](CopyFailed => AllRanInReverse)
    /\ [][(cp.err # "" /\ cp'.kind # "idle") => cp'.err = cp.err]_vars

\* A same-pool copy with a snapshot failed while it copied the data; the compensating
\* action that ran first (the deletion of the snapshot's record) failed, and the two
\* registered before it ran after it.
C30_Witness ==
    /\ CopyFailed
    /\ cp.err = "CopyVolume"
    /\ Len(cp.ran) = 3
    /\ cp.ran[1].failed
    /\ cp.ran[2].hook = CopyHook("VolumeDBDelete", "")
    /\ cp.ran[3].hook = CopyHook("DeleteInstance", "")

(***************************************************************************)
(* Properties of the pool Create.                                          *)
(***************************************************************************)
\* Create has returned an error.
CreateFailed == createOp.pc = "returned" /\ createOp.err # ""

\* C31: when Create has returned an error, the mount paths and the pools on the
\* storage devices are those of before the call (a mount path or a pool it created is
\* gone, a mount path that existed before is still there), what it added was removed
\* in reverse order of creation, and a call refused for an existing mount path has
\* run no compensating action.
C31_FailedCreateLeavesNothing ==
    CreateFailed
        => /\ poolDir = createOp.pre.poolDir
           /\ driverPools = createOp.pre.driverPools
           /\ Len(createOp.ran) = Len(createOp.registered)
           /\ \A i \in 1..Len(createOp.ran) :
                    createOp.ran[i] = createOp.registered[Len(createOp.registered) + 1 - i]
           /\ createOp.pool \in createOp.pre.poolDir => createOp.ran = <<>>

\* Create failed after it had made the mount path and the pool on the storage device:
\* the pool was deleted first, the mount path removed after it.
C31_Witness ==
    /\ CreateFailed
    /\ createOp.ran = <<"driver.Delete", "RemoveAll">>
    /\ createOp.pool \notin poolDir
    /\ createOp.pool \notin driverPools

(***************************************************************************)
(* Properties of EnsureImage on a driver without optimized images.         *)
(***************************************************************************)
\* The pools whose driver has no optimized images.
PlainPools == Pools \ {ImgPool}

\* The call of p on a pool whose driver has no optimized images takes its first step.
NonOptimizedStep(p) ==
    /\ proc[p].kind = "EnsureImage"
    /\ proc[p].pc = "isStatusReady"
    /\ proc[p].pool \in PlainPools
    /\ proc'[p] # proc[p]

\* The step returns, and neither the lock table nor the image's record and volume change.
ReturnsAtOnce(p) ==
    /\ proc'[p].pc = "done"
    /\ locks' = locks
    /\ imgRec' = imgRec /\ imgDisk' = imgDisk /\ unpacks' = unpacks

PoolReady(pool) == isStatusReady(poolStatus[pool], pool \in unavailablePools) = "nil"

\* C32 as stated: EnsureImage on a pool whose driver has no optimized images returns
\* success at once in every pool state, taking no lock and changing nothing.
C32_NonOptimizedSucceedsInEveryState ==
    [][\A p \in Procs : NonOptimizedStep(p) => ReturnsAtOnce(p) /\ ~proc'[p].err]_vars

\* C32 amended: EnsureImage on a pool whose driver has no optimized images returns at
\* once, taking no lock and changing nothing; it returns success when the pool is
\* neither pending nor unavailable, and the error of the status check otherwise.
C32_NonOptimizedReturnsAtOnce ==
    [][\A p \in Procs : NonOptimizedStep(p)
            => ReturnsAtOnce(p) /\ (proc'[p].err <=> ~PoolReady(proc[p].pool))]_vars

\* A call on a ready pool without optimized images has returned success, no lock held.
C32_Witness ==
    \E p \in Procs : /\ proc[p].pc = "done" /\ proc[p].kind = "EnsureImage"
                      /\ proc[p].pool \in PlainPools
                      /\ PoolReady(proc[p].pool)
                      /\ ~proc[p].err
                      /\ \A n \in ImageLockNames : locks[n] = 0

(***************************************************************************)
(* Properties of the received snapshot records and of the instance quota.  *)
(***************************************************************************)
\* C33: every received snapshot's record is made from the header's entry of the same
\* name, wherever that entry is in the header's list, and from the parent volume if
\* the header has none; no entry outside the header's list is read.
C33_HeaderEntryByName ==
    snapRecCall.op = "CreateInstanceFromMigration" /\ snapRecCall.header # NoHeader
        => /\ ~snapRecCall.panic
           /\ Len(snapRecCall.from) = Len(snapRecCall.snaps)
           /\ \A i \in 1..Len(snapRecCall.from) :
                    snapRecCall.from[i] =
                        HeaderEntry_ByName(snapRecCall.header, i, snapRecCall.snaps[i])

C35_RestoredRecordIsSnapshots ==
    op.kind = "RestoreInstanceSnapshot" /\ op.pc = "returned" /\ ~op.err
        => dbConfig[Vol(op.vt, op.name, NoSnap)] = dbConfig[Vol(op.vt, op.name, op.snap)]

(***************************************************************************)
(* Properties of a failed refresh by migration.                            *)
(***************************************************************************)
\* C36: when CreateInstanceFromMigration, called with Refresh=true on an instance whose
\* volume and record exist, has returned an error after the driver received the data,
\* the instance's volume and its record still exist.
C36_FailedRefreshKeepsVolume ==
    LET k == Vol(op.vt, op.name, NoSnap) IN
    (/\ op.kind = "CreateInstanceFromMigration" /\ op.refresh
     /\ op.pc = "returned" /\ op.err /\ op.calls = 1
     /\ k \in op.pre.db \cap op.pre.disk)
        => k \in db \cap disk

(***************************************************************************)
(* Properties of a failed creation after the driver made the volume.       *)
(***************************************************************************)
\* C37: when CreateInstanceFromImage has returned an error after the instance's on-disk
\* volume was created, it is not the case that the volume is still there and its
\* record is gone.
C37_NoVolumeWithoutRecord ==
    LET k == Vol(op.vt, op.name, NoSnap) IN
    (op.kind = "CreateInstanceFromImage" /\ op.pc = "returned" /\ op.err /\ op.calls = 1)
        => ~(k \in disk /\ k \notin db)

\* C38: when CreateInstanceSnapshot has returned an error after the driver created the
\* on-disk snapshot, no on-disk snapshot of that name is left without a record.
C38_NoSnapshotWithoutRecord ==
    LET k == Vol(op.vt, op.name, op.snap) IN
    (/\ op.kind = "CreateInstanceSnapshot" /\ op.pc = "returned" /\ op.err
     /\ k \notin op.pre.disk)
        => ~(k \in disk /\ k \notin db)

(***************************************************************************)
(* Properties of EnsureImage beside a DeleteImage of another caller.       *)
(***************************************************************************)
\* p is inside EnsureImage, q inside a DeleteImage that its caller invoked.
InEnsureImage(p) == locks[EnsureImageLock] = p
InDeleteImage(q) == proc[q].kind = "DeleteImage" /\ locks[DeleteImageLock] = q

EnsureExcludesDelete == \A p, q \in LockCallers : ~(InEnsureImage(p) /\ InDeleteImage(q))

\* An EnsureImage call returns success.
EnsureImageSucceeds(p) ==
    /\ proc[p].kind = "EnsureImage" /\ proc[p].pc # "done"
    /\ proc'[p].pc = "done" /\ ~proc'[p].err

\* When EnsureImage returns success the image's record and volume exist.
ReturnsWithImage ==
    [][\A p \in LockCallers : EnsureImageSucceeds(p) => imgRec'.exists /\ imgDisk'.exists]_vars

\* C39: no caller is inside EnsureImage while another is inside a DeleteImage of the same
\* image, and when EnsureImage returns success the image's record and volume, which it
\* found or made, have not been removed by a DeleteImage in between.
C39_DeleteNeverInsideEnsure == [](EnsureExcludesDelete) /\ ReturnsWithImage

(***************************************************************************)
(* Properties of concurrent snapshots of one name.                         *)
(***************************************************************************)
CsnapSucceeded(c) == csnap[c].pc = "done" /\ ~csnap[c].err
CsnapFailed(c) == csnap[c].pc = "done" /\ csnap[c].err

\* C40: of two CreateCustomVolumeSnapshot calls for the same volume and snapshot name
\* at most one succeeds, and the record and the on-disk snapshot the succeeding call
\* made are still there whatever the other call did and reverted.
C40_OneSnapshotCallSucceeds ==
    \A c \in CsnapCallers :
        CsnapSucceeded(c)
            => /\ Vol(VolumeTypeCustom, csnap[c].name, csnap[c].snap) \in db \cap disk
               /\ \A d \in CsnapCallers : SameSnapshot(c, d) => ~CsnapSucceeded(d)

\* One call succeeded; the other, which ran beside it for the same names, failed.
C40_Witness ==
    \E c, d \in CsnapCallers :
        /\ SameSnapshot(c, d)
        /\ CsnapSucceeded(c)
        /\ CsnapFailed(d) /\ csnap[d].beside

====
